---- MODULE Spec2Model ----
(***************************************************************************)
(* Verification model of the NFS block cache and the libretro VFS read     *)
(* path (macos/Classes/block_cache.cpp, libretro_vfs_impl.cpp).            *)
(*                                                                         *)
(* Every BlockCache method runs under BlockCache::mutex_, so each method   *)
(* is one atomic step.  retro_vfs_read / retro_vfs_write are split at the  *)
(* points where they release every lock (between two cache calls, around   *)
(* the transport call), so that the prefetcher can interleave.             *)
(***************************************************************************)
EXTENDS Integers, Sequences, FiniteSets, TLC

VARIABLES
    slots,            \* BlockCache::slots_       : 0..n-1 -> Slot
    id_to_slot,       \* BlockCache::id_to_slot_  : block_id -> slot index
    access_counter,   \* BlockCache::access_counter_
    waiter,           \* a thread inside BlockCache::wait_for_block
    origin,           \* history: block_id -> payload stored by the put that made it valid
    server,           \* the bytes of the open file on the NFS server
    file,             \* RetroNfsFile: offset, size
    g_adaptive_timeout_ms,
    th,               \* the emulator thread: where it is in retro_vfs_read / _write
    wr,               \* history: the last write that returned n > 0, and whether
                      \* the prefetcher has been silent since it began
    init_call,        \* history: the last cache_init call and how it ended
    pool,             \* NfsPool::pool_ : key -> Connection
    contexts,         \* the number of nfs_context objects created so far
    pt,               \* the threads that open, use and close files
    hist,             \* history: the contexts installed in the pool and destroyed
    stat_cache,       \* NfsPool::stat_cache_ : path -> StatEntry
    now,              \* std::chrono::steady_clock::now()
    stat_call,        \* the get_stat_cache call that has just returned
    inflight,         \* block data the prefetcher has fetched and not yet put
    streams           \* the open files other than the one the current call is on

cacheVars == <<slots, id_to_slot, access_counter>>
vfsVars == <<server, file, g_adaptive_timeout_ms, th, wr>>
poolVars == <<pool, contexts, pt, hist, stat_cache, now, stat_call>>
vars == <<slots, id_to_slot, access_counter, waiter, origin,
          server, file, g_adaptive_timeout_ms, th, wr,
          init_call, pool, contexts, pt, hist, stat_cache, now, stat_call,
          inflight, streams>>

----------------------------------------------------------------------------
(* Sizes.  The source has BLOCK_SIZE = 128 KiB and 8 blocks per MiB; the   *)
(* model keeps the arithmetic and scales the numbers down.                 *)

\* bytes per block (block_cache.hpp:13, scaled)
BLOCK_SIZE == 2
\* bytes per "MiB" of init's argument (1024 * 1024 in block_cache.cpp:17, scaled)
MiB == BLOCK_SIZE
\* capacity used when init is given 0 (64 in block_cache.cpp:15, scaled)
DefaultCapacityMb == 2
\* largest capacity_mb passed to init
MaxCapacityMb == 2
\* block ids range over 0..MaxBlock
MaxBlock == 3

BlockIds == 0..MaxBlock
\* payload bytes; 0 is what memset and value-initialisation write
Byte == {1, 2}
\* a null data pointer (no buffer holds a negative byte)
NullPtr == << -1 >>

Min(S) == CHOOSE x \in S : \A y \in S : x <= y
Max(S) == CHOOSE x \in S : \A y \in S : x >= y
MinOf(a, b) == IF a <= b THEN a ELSE b

----------------------------------------------------------------------------
(* BlockCache                                                              *)

\* struct Slot after std::make_unique<Slot>() (value-initialised)
EmptySlot ==
    [data |-> [i \in 1..BLOCK_SIZE |-> 0], block_id |-> 0, valid |-> FALSE, last_access |-> 0]

NumSlots == Cardinality(DOMAIN slots)

Has(b) == b \in DOMAIN id_to_slot

Erase(m, b) == [x \in (DOMAIN m) \ {b} |-> m[x]]

Insert(m, b, i) == [x \in (DOMAIN m) \cup {b} |-> IF x = b THEN i ELSE m[x]]

\* the largest size_t (scaled down: the type has 16 values here)
SIZE_MAX == 15

\* the conversion of an int argument to size_t
ToSizeT(x) == x % (SIZE_MAX + 1)

\* the most slots the allocator can provide: those of the largest capacity
\* the host asks for
AllocLimit == (MaxCapacityMb * MiB) \div BLOCK_SIZE

\* BlockCache::init, lines 15-17: capacity_mb is a size_t and the product is
\* computed in size_t
InitSlots(capacity_mb) ==
    LET cap == IF capacity_mb <= 0 THEN DefaultCapacityMb ELSE capacity_mb
    IN  ((cap * MiB) % (SIZE_MAX + 1)) \div BLOCK_SIZE

\* BlockCache::init.  When slots_.reserve(new_slots) cannot get the memory
\* it throws and nothing is initialised
init(capacity_mb) ==
    LET new_slots == InitSlots(capacity_mb)
    IN  IF DOMAIN slots = {} /\ new_slots <= AllocLimit
        THEN /\ slots' = [i \in 0..(new_slots - 1) |-> EmptySlot]
             /\ UNCHANGED <<id_to_slot, access_counter>>
        ELSE UNCHANGED cacheVars

\* cache_init(int capacity_mb): the int is converted to init's size_t
cache_init(capacity_mb) == init(ToSizeT(capacity_mb))

\* mutant of LruIndex: the comparison reversed (the most recently used slot)
LruIndex_mru ==
    CHOOSE i \in DOMAIN slots :
        \A j \in DOMAIN slots :
            \/ slots[i].last_access > slots[j].last_access
            \/ slots[i].last_access = slots[j].last_access /\ i <= j

\* the index the "Find LRU" loop of evict_lru ends with: the first slot with
\* the smallest last_access (the comparison is a strict <)
LruIndex ==
    CHOOSE i \in DOMAIN slots :
        \A j \in DOMAIN slots :
            \/ slots[i].last_access < slots[j].last_access
            \/ slots[i].last_access = slots[j].last_access /\ i <= j

\* mutant of evict_lru: the victim's id_to_slot_ entry is not erased
evict_lru_keeps_mapping ==
    LET invalid == {i \in DOMAIN slots : ~slots[i].valid}
    IN  IF invalid # {}
        THEN [victim |-> Min(invalid), slots |-> slots, map |-> id_to_slot]
        ELSE IF DOMAIN slots = {}
        THEN [victim |-> -1, slots |-> slots, map |-> id_to_slot]
        ELSE [victim |-> LruIndex,
              slots  |-> [slots EXCEPT ![LruIndex].valid = FALSE],
              map    |-> id_to_slot]

\* BlockCache::evict_lru: the index it returns, and the slots and the map it leaves
evict_lru ==
    LET invalid == {i \in DOMAIN slots : ~slots[i].valid}
    IN  IF invalid # {}
        THEN [victim |-> Min(invalid), slots |-> slots, map |-> id_to_slot]
        ELSE IF DOMAIN slots = {}
        THEN [victim |-> -1, slots |-> slots, map |-> id_to_slot]
        ELSE [victim |-> LruIndex,
              slots  |-> [slots EXCEPT ![LruIndex].valid = FALSE],
              map    |-> Erase(id_to_slot, slots[LruIndex].block_id)]

\* what put_block leaves in slot->data: memcpy of min(len, BLOCK_SIZE) bytes
\* (skipped when data is null), then the zero fill
Payload(old, data, len) ==
    LET copy_len == MinOf(len, BLOCK_SIZE)
    IN  [i \in 1..BLOCK_SIZE |->
            IF i <= copy_len THEN (IF data = NullPtr THEN old[i] ELSE data[i]) ELSE 0]

\* mutant of put_block: a block already present is overwritten in place
put_block_overwrite(block_id, data, len) ==
    IF Has(block_id)
    THEN /\ slots' = [slots EXCEPT ![id_to_slot[block_id]].data =
                         Payload(slots[id_to_slot[block_id]].data, data, len)]
         /\ UNCHANGED <<id_to_slot, access_counter>>
    ELSE LET e == evict_lru
         IN  IF e.victim = -1
             THEN UNCHANGED cacheVars
             ELSE /\ slots' = [e.slots EXCEPT ![e.victim] =
                                  [data        |-> Payload(e.slots[e.victim].data, data, len),
                                   block_id    |-> block_id,
                                   valid       |-> TRUE,
                                   last_access |-> access_counter + 1]]
                  /\ access_counter' = access_counter + 1
                  /\ id_to_slot' = Insert(e.map, block_id, e.victim)

\* BlockCache::put_block
put_block(block_id, data, len) ==
    IF Has(block_id)
    THEN UNCHANGED cacheVars
    ELSE LET e == evict_lru
         IN  IF e.victim = -1
             THEN UNCHANGED cacheVars
             ELSE /\ slots' = [e.slots EXCEPT ![e.victim] =
                                  [data        |-> Payload(e.slots[e.victim].data, data, len),
                                   block_id    |-> block_id,
                                   valid       |-> TRUE,
                                   last_access |-> access_counter + 1]]
                  /\ access_counter' = access_counter + 1
                  /\ id_to_slot' = Insert(e.map, block_id, e.victim)

\* mutant of invalidate_block: the slot is marked invalid, the map entry stays
invalidate_block_keeps_entry(block_id) ==
    IF Has(block_id)
    THEN /\ slots' = [slots EXCEPT ![id_to_slot[block_id]].valid = FALSE]
         /\ UNCHANGED <<id_to_slot, access_counter>>
    ELSE UNCHANGED cacheVars

\* BlockCache::invalidate_block
invalidate_block(block_id) ==
    IF Has(block_id)
    THEN /\ slots' = [slots EXCEPT ![id_to_slot[block_id]].valid = FALSE]
         /\ id_to_slot' = Erase(id_to_slot, block_id)
         /\ UNCHANGED access_counter
    ELSE UNCHANGED cacheVars

\* mutant of get_block_ptr: the slot is stamped with the counter as it is
get_block_ptr_same_stamp(block_id) ==
    IF Has(block_id)
    THEN /\ slots' = [slots EXCEPT ![id_to_slot[block_id]].last_access = access_counter]
         /\ UNCHANGED <<id_to_slot, access_counter>>
    ELSE UNCHANGED cacheVars

\* BlockCache::get_block_ptr: the state change (the stamp)
get_block_ptr(block_id) ==
    IF Has(block_id)
    THEN /\ slots' = [slots EXCEPT ![id_to_slot[block_id]].last_access = access_counter + 1]
         /\ access_counter' = access_counter + 1
         /\ UNCHANGED id_to_slot
    ELSE UNCHANGED cacheVars

\* BlockCache::get_block_ptr: the bytes behind the pointer it returns
BlockPtrData(block_id) ==
    IF Has(block_id) THEN slots[id_to_slot[block_id]].data ELSE NullPtr

\* end_block of BlockCache::read.  offset + len - 1 is computed in uint64_t: for
\* offset = len = 0 it wraps to UINT64_MAX, a block id above every id the
\* cache can hold (MaxBlock + 1 stands for it: the loop stops at the first
\* missing block)
EndBlock(offset, len) ==
    IF offset + len = 0 THEN MaxBlock + 1 ELSE (offset + len - 1) \div BLOCK_SIZE

\* the for loop of BlockCache::read from block b on; copied, data and stamped
\* are what the earlier iterations produced
RECURSIVE ReadLoop(_, _, _, _, _, _)
ReadLoop(b, offset, len, copied, data, stamped) ==
    IF b > EndBlock(offset, len)
    THEN [res |-> copied, copied |-> copied, data |-> data, stamped |-> stamped]
    ELSE IF ~Has(b)
    THEN IF copied > 0
         THEN [res |-> copied, copied |-> copied, data |-> data, stamped |-> stamped]
         ELSE [res |-> -1, copied |-> 0, data |-> <<>>, stamped |-> stamped]
    ELSE LET start_block  == offset \div BLOCK_SIZE
             block_offset == IF b = start_block THEN offset % BLOCK_SIZE ELSE 0
             available    == BLOCK_SIZE - block_offset
             remaining    == len - copied
             to_copy      == MinOf(available, remaining)
             bytes        == slots[id_to_slot[b]].data
         IN  ReadLoop(b + 1, offset, len, copied + to_copy,
                      data \o [i \in 1..to_copy |-> bytes[block_offset + i]],
                      Append(stamped, b))

\* mutant of ReadResult: a read that cannot be served in full is a miss
ReadResult_all_or_nothing(offset, len) ==
    LET r == ReadLoop(offset \div BLOCK_SIZE, offset, len, 0, <<>>, <<>>)
    IN  IF DOMAIN id_to_slot = {} \/ r.copied < len
        THEN [res |-> -1, copied |-> 0, data |-> <<>>, stamped |-> <<>>]
        ELSE r

\* BlockCache::read: its return value, *out_actual_len, the bytes copied to
\* out_buffer, and the blocks it stamped, in order
ReadResult(offset, len) ==
    IF DOMAIN id_to_slot = {}
    THEN [res |-> -1, copied |-> 0, data |-> <<>>, stamped |-> <<>>]
    ELSE ReadLoop(offset \div BLOCK_SIZE, offset, len, 0, <<>>, <<>>)

\* BlockCache::read: the state change (slot->last_access = ++access_counter_
\* for every block the loop visits)
read(offset, len) ==
    LET r == ReadResult(offset, len)
        ks(i) == {k \in 1..Len(r.stamped) : id_to_slot[r.stamped[k]] = i}
    IN  /\ slots' = [i \in DOMAIN slots |->
                        IF ks(i) # {}
                        THEN [slots[i] EXCEPT !.last_access = access_counter + Max(ks(i))]
                        ELSE slots[i]]
        /\ access_counter' = access_counter + Len(r.stamped)
        /\ UNCHANGED id_to_slot

\* the predicate of BlockCache::wait_for_block, evaluated under mutex_
wait_pred(block_id) == Has(block_id)

\* mutant of wait_timeout_result: a timeout is reported without looking again
wait_timeout_result_false(block_id) == FALSE

\* what cv_.wait_for(lock, timeout, pred) returns when the timeout expires:
\* the predicate, evaluated once more
wait_timeout_result(block_id) == wait_pred(block_id)

----------------------------------------------------------------------------
(* The cache on its own: the prefetcher and the C API call the BlockCache  *)
(* methods in any order.  CacheSpec follows the slots, the map and the     *)
(* stamps (every put stores the same bytes); DataSpec below follows the    *)
(* bytes, WaitSpec a thread inside wait_for_block.                         *)

\* access_counter_ is capped by guards at MaxAccess
MaxAccess == 4

\* a buffer of len bytes whose first byte is v and whose bytes alternate
Buffer(v, len) == [i \in 1..len |-> IF i % 2 = 1 THEN v ELSE 3 - v]
\* byte offsets handed to read
Offsets == 0..((MaxBlock + 1) * BLOCK_SIZE - 1)

\* the emulator thread outside every VFS call; inside one, th holds the
\* call's locals (len, total_read, the caller's buffer, missing_block_id,
\* sync_res, the loop index b), and once the call is over its return value.
\* want, escape, net_reads and first are history: the length asked of nfs_pread,
\* total_read when a wait timed out after a partial hit, the number of
\* nfs_pread calls made, and whether the read is the first since a write;
\* waits counts the wait_for_block calls the read has made
ThreadIdle ==
    [pc |-> "idle", op |-> "none", len |-> 0, start |-> 0, total_read |-> 0,
     buf |-> <<>>, missing |-> 0, sync_res |-> 0, b |-> 0, value |-> 0,
     want |-> 0, escape |-> -1, net_reads |-> 0, first |-> FALSE,
     puts |-> <<>>, waits |-> 0]
\* history: no write has returned n > 0 yet.  k counts those writes; of the
\* last one, n bytes data went to offset o, stale says whether a block it
\* touched was in the cache when it began, quiet whether the prefetcher has
\* been silent since, fresh whether no read has been called since
NoWrite ==
    [k |-> 0, n |-> 0, o |-> 0, data |-> <<>>, stale |-> FALSE,
     quiet |-> FALSE, fresh |-> FALSE]

\* the pool, the stat cache and the threads that use them before any call
PoolUnused ==
    /\ pool = <<>>
    /\ contexts = 0
    /\ pt = <<>>
    /\ hist = [installed |-> {}, destroyed |-> {}]
    /\ stat_cache = <<>>
    /\ now = 0
    /\ stat_call = [op |-> "none"]
    /\ inflight = <<>>
    /\ streams = <<>>

\* no file is open: the VFS part of the state is not used
NoFileOpen ==
    /\ PoolUnused
    /\ server = <<>>
    /\ file = [offset |-> 0, size |-> 0]
    /\ g_adaptive_timeout_ms = 4
    /\ th = ThreadIdle
    /\ wr = NoWrite

WaiterIdle == [pc |-> "idle", b |-> 0, result |-> FALSE, put |-> FALSE, gone |-> FALSE]

\* the int arguments handed to cache_init
CapacityArgs == (0 - 1)..MaxCapacityMb

\* how a cache_init call ends: it allocated the slots, it found the cache
\* initialised, or slots_.reserve threw
InitOutcome(capacity_mb) ==
    IF DOMAIN slots # {} THEN "noop"
    ELSE IF InitSlots(ToSizeT(capacity_mb)) <= AllocLimit THEN "ok"
    ELSE "bad_alloc"

CacheInit ==
    \E capacity_mb \in CapacityArgs :
        /\ cache_init(capacity_mb)
        /\ init_call' = [arg |-> capacity_mb, outcome |-> InitOutcome(capacity_mb)]
        /\ UNCHANGED <<waiter, origin, vfsVars, poolVars, inflight, streams>>

CachePut ==
    \E b \in BlockIds :
        /\ access_counter < MaxAccess
        /\ put_block(b, Buffer(1, BLOCK_SIZE), BLOCK_SIZE)
        /\ UNCHANGED <<waiter, origin, vfsVars, init_call, poolVars, inflight, streams>>

CacheInvalidate ==
    \E b \in BlockIds :
        /\ invalidate_block(b)
        /\ UNCHANGED <<waiter, origin, vfsVars, init_call, poolVars, inflight, streams>>

\* reads of whole blocks: n blocks from block b on
CacheRead ==
    \E b \in BlockIds, n \in 1..(MaxBlock + 1) :
        /\ access_counter + Len(ReadResult(b * BLOCK_SIZE, n * BLOCK_SIZE).stamped) <= MaxAccess
        /\ read(b * BLOCK_SIZE, n * BLOCK_SIZE)
        /\ UNCHANGED <<waiter, origin, vfsVars, init_call, poolVars, inflight, streams>>

\* the exported cache_has_block: it calls get_block_ptr and compares the
\* pointer with nullptr; this is the state change
cache_has_block(block_id) == get_block_ptr(block_id)

\* the value cache_has_block returns
HasBlockResult(block_id) == IF BlockPtrData(block_id) # NullPtr THEN 1 ELSE 0

\* get_block_ptr, also reached through cache_has_block
CacheGetPtr ==
    \E b \in BlockIds :
        /\ access_counter < MaxAccess
        /\ get_block_ptr(b)
        /\ UNCHANGED <<waiter, origin, vfsVars, init_call, poolVars, inflight, streams>>

CacheInitState ==
    /\ NoFileOpen
    /\ init_call = [arg |-> 0, outcome |-> "none"]
    /\ slots = <<>>
    /\ id_to_slot = <<>>
    /\ access_counter = 0
    /\ waiter = WaiterIdle
    /\ origin = <<>>

CacheNext ==
    \/ CacheInit
    \/ CachePut
    \/ CacheInvalidate
    \/ CacheRead
    \/ CacheGetPtr

CacheSpec == CacheInitState /\ [][CacheNext]_vars

----------------------------------------------------------------------------
(* DataSpec: the bytes.  The cache has been initialised with init(0).      *)

\* longest read the cache is asked for
MaxReadLen == 3
\* access_counter_ is capped by guards at DataMaxAccess
DataMaxAccess == 3

\* lengths and buffers handed to put_block
PutLens == 0..(BLOCK_SIZE + 1)
PutData(len) == {Buffer(v, len) : v \in Byte} \cup {NullPtr}

\* the first len bytes of data, cut or zero-padded to one block
ZeroPadded(data, len) ==
    [i \in 1..BLOCK_SIZE |-> IF i <= len THEN data[i] ELSE 0]

\* history: for every valid block the bytes it was given by the put that
\* made it valid (for a null buffer: the bytes the slot then held), and
\* whether a later put offered it other bytes
OriginObserves(b, data, len) ==
    LET stored == slots'[id_to_slot'[b]].data
        given  == IF data = NullPtr THEN stored ELSE ZeroPadded(data, len)
    IN  origin' = [x \in DOMAIN id_to_slot' |->
                      IF x # b THEN origin[x]
                      ELSE IF Has(b)
                      THEN [origin[b] EXCEPT !.again = @ \/ given # origin[b].data]
                      ELSE [data |-> given, again |-> FALSE]]

DataPut ==
    \E b \in BlockIds, len \in PutLens :
        \E data \in PutData(len) :
            /\ access_counter < DataMaxAccess
            /\ put_block(b, data, len)
            /\ OriginObserves(b, data, len)
            /\ UNCHANGED <<waiter, vfsVars, init_call, poolVars, inflight, streams>>

DataInvalidate ==
    \E b \in BlockIds :
        /\ invalidate_block(b)
        /\ origin' = [x \in DOMAIN id_to_slot' |-> origin[x]]
        /\ UNCHANGED <<waiter, vfsVars, init_call, poolVars, inflight, streams>>

DataRead ==
    \E offset \in Offsets, len \in 0..MaxReadLen :
        /\ access_counter + Len(ReadResult(offset, len).stamped) <= DataMaxAccess
        /\ read(offset, len)
        /\ UNCHANGED <<waiter, origin, vfsVars, init_call, poolVars, inflight, streams>>

DataGetPtr ==
    \E b \in BlockIds :
        /\ access_counter < DataMaxAccess
        /\ get_block_ptr(b)
        /\ UNCHANGED <<waiter, origin, vfsVars, init_call, poolVars, inflight, streams>>

\* the cache after init(0)
InitialisedCache ==
    /\ slots = [i \in 0..((DefaultCapacityMb * MiB) \div BLOCK_SIZE - 1) |-> EmptySlot]
    /\ id_to_slot = <<>>
    /\ access_counter = 0
    /\ init_call = [arg |-> 0, outcome |-> "ok"]

DataInitState ==
    /\ NoFileOpen
    /\ InitialisedCache
    /\ waiter = WaiterIdle
    /\ origin = <<>>

DataNext ==
    \/ DataPut
    \/ DataInvalidate
    \/ DataRead
    \/ DataGetPtr

DataSpec == DataInitState /\ [][DataNext]_vars

----------------------------------------------------------------------------
(* WaitSpec: one thread inside wait_for_block while other threads put and  *)
(* invalidate blocks.  The cache has been initialised with init(0).        *)

\* history kept for the blocked thread: whether a put made its block valid
\* while it was blocked, and whether the block was removed again afterwards
WaiterObserves ==
    waiter' = IF waiter.pc = "blocked"
              THEN [waiter EXCEPT
                      !.put  = @ \/ (~Has(waiter.b) /\ waiter.b \in DOMAIN id_to_slot'),
                      !.gone = @ \/ (Has(waiter.b) /\ waiter.b \notin DOMAIN id_to_slot')]
              ELSE waiter

WaitPut ==
    \E b \in BlockIds :
        /\ access_counter < MaxAccess
        /\ put_block(b, Buffer(1, BLOCK_SIZE), BLOCK_SIZE)
        /\ WaiterObserves
        /\ UNCHANGED <<origin, vfsVars, init_call, poolVars, inflight, streams>>

WaitInvalidate ==
    \E b \in BlockIds :
        /\ invalidate_block(b)
        /\ WaiterObserves
        /\ UNCHANGED <<origin, vfsVars, init_call, poolVars, inflight, streams>>

\* wait_for_block up to the point where it returns or blocks on cv_
WaitCall ==
    \E b \in BlockIds :
        /\ waiter.pc = "idle"
        /\ waiter' = IF wait_pred(b)
                     THEN [WaiterIdle EXCEPT !.pc = "done", !.b = b, !.result = TRUE]
                     ELSE [WaiterIdle EXCEPT !.pc = "blocked", !.b = b]
        /\ UNCHANGED <<cacheVars, origin, vfsVars, init_call, poolVars, inflight, streams>>

\* woken (by notify_all or spuriously) with the predicate true
WaitWake ==
    /\ waiter.pc = "blocked"
    /\ wait_pred(waiter.b)
    /\ waiter' = [waiter EXCEPT !.pc = "done", !.result = TRUE]
    /\ UNCHANGED <<cacheVars, origin, vfsVars, init_call, poolVars, inflight, streams>>

\* the timeout expires
WaitTimeout ==
    /\ waiter.pc = "blocked"
    /\ waiter' = [waiter EXCEPT !.pc = "done", !.result = wait_timeout_result(waiter.b)]
    /\ UNCHANGED <<cacheVars, origin, vfsVars, init_call, poolVars, inflight, streams>>

WaitReturn ==
    /\ waiter.pc = "done"
    /\ waiter' = WaiterIdle
    /\ UNCHANGED <<cacheVars, origin, vfsVars, init_call, poolVars, inflight, streams>>

WaitInitState ==
    /\ NoFileOpen
    /\ InitialisedCache
    /\ waiter = WaiterIdle
    /\ origin = <<>>

WaitNext ==
    \/ WaitPut
    \/ WaitInvalidate
    \/ WaitCall
    \/ WaitWake
    \/ WaitTimeout
    \/ WaitReturn

WaitSpec == WaitInitState /\ [][WaitNext]_vars

----------------------------------------------------------------------------
(* The VFS read and write path on one open file.                           *)
(* The emulator thread runs retro_vfs_seek / _read / _write one call at a  *)
(* time; the prefetcher puts blocks it fetched from the server at any      *)
(* moment.  A call that is over leaves th.pc = "done" with its return      *)
(* value until the caller takes it (Return).                               *)

\* size of the file when it was opened
InitialSize == 3
\* the file never grows beyond MaxFileLen bytes
MaxFileLen == 4
\* longest buffer handed to retro_vfs_write
MaxWriteLen == 2
\* at most MaxWrites writes return n > 0
MaxWrites == 1
\* the byte the emulator writes; the file as opened does not hold it
WriteByte == 3
\* access_counter_ is capped by guards at VfsMaxAccess
VfsMaxAccess == 3

\* the negative values libnfs returns for a failed call (-errno; here -EPERM
\* and -EIO)
NfsErrors == {-1, -5}

\* what nfs_pread(count bytes at pos) may return: an error, or the bytes up
\* to the end of the file, or fewer
PreadResults(pos, count) ==
    LET n == IF pos >= Len(server) THEN 0 ELSE MinOf(count, Len(server) - pos)
    IN  NfsErrors \cup (IF n = 0 THEN {0} ELSE 1..n)

\* what nfs_pwrite(count bytes) may return: an error, or the bytes written
PwriteResults(count) == NfsErrors \cup (IF count = 0 THEN {0} ELSE 1..count)

\* the server's file after data was written at pos (a gap reads as zeros)
ServerWrite(pos, data) ==
    [i \in 1..(IF pos + Len(data) > Len(server) THEN pos + Len(data) ELSE Len(server)) |->
        IF i > pos /\ i <= pos + Len(data) THEN data[i - pos]
        ELSE IF i <= Len(server) THEN server[i]
        ELSE 0]

\* retro_vfs_read, lines 348-353: t is the thread with its final total_read
read_return(t) ==
    /\ th' = [t EXCEPT !.pc = "done",
                       !.value = IF t.total_read > 0 THEN t.total_read ELSE -1]
    /\ file' = IF t.total_read > 0
               THEN [file EXCEPT !.offset = @ + t.total_read]
               ELSE file

\* retro_vfs_read up to the first cache read.  The prefetch hints go to the
\* host's callback and change nothing here.  With len = 0 both the cache
\* loop and the fallback are skipped.
ReadCall ==
    \E len \in 0..MaxReadLen :
        /\ th.pc = "idle"
        /\ LET t == [ThreadIdle EXCEPT !.op = "read", !.len = len, !.start = file.offset,
                                      !.first = wr.fresh]
           IN  IF len = 0
               THEN read_return(t)
               ELSE th' = [t EXCEPT !.pc = "cache_loop"] /\ file' = file
        /\ wr' = [wr EXCEPT !.fresh = FALSE]
        /\ UNCHANGED <<cacheVars, init_call, poolVars, inflight, streams, waiter, origin, server, g_adaptive_timeout_ms>>

\* one iteration of the cache loop up to its wait, break or continue
ReadCacheLoop(maxAccess) ==
    /\ th.pc = "cache_loop"
    /\ LET current_pos == file.offset + th.total_read
           r     == ReadResult(current_pos, th.len - th.total_read)
           total == th.total_read + r.copied
       IN  /\ access_counter + Len(r.stamped) <= maxAccess
           /\ read(current_pos, th.len - th.total_read)
           /\ IF r.res > 0
              THEN IF total >= th.len
                   THEN read_return([th EXCEPT !.total_read = total, !.buf = @ \o r.data])
                   ELSE /\ th' = [th EXCEPT !.total_read = total, !.buf = @ \o r.data,
                                            !.missing = (file.offset + total) \div BLOCK_SIZE,
                                            !.pc = "wait_next"]
                        /\ file' = file
              ELSE /\ th' = [th EXCEPT !.missing = current_pos \div BLOCK_SIZE,
                                       !.pc = "wait_first"]
                   /\ file' = file
    /\ UNCHANGED <<init_call, poolVars, inflight, streams, waiter, origin, server, g_adaptive_timeout_ms, wr>>

\* lines 282-288: the wait succeeded after wait_ms milliseconds
adapt_success(wait_ms) ==
    IF wait_ms < g_adaptive_timeout_ms \div 2 /\ g_adaptive_timeout_ms > 2
    THEN g_adaptive_timeout_ms - 1
    ELSE g_adaptive_timeout_ms

\* line 292: the wait timed out
adapt_timeout ==
    IF g_adaptive_timeout_ms < 20
    THEN g_adaptive_timeout_ms + 2
    ELSE g_adaptive_timeout_ms

\* lines 282-288
wait_next_success(wait_ms) ==
    /\ g_adaptive_timeout_ms' = adapt_success(wait_ms)
    /\ th' = [th EXCEPT !.pc = "cache_loop", !.waits = @ + 1]

\* the wait after a partial hit returns true before the timeout: the block
\* was there on entry, or a put woke the thread
ReadWaitNextWake ==
    /\ th.pc = "wait_next"
    /\ wait_pred(th.missing)
    /\ \E wait_ms \in 0..g_adaptive_timeout_ms : wait_next_success(wait_ms)
    /\ UNCHANGED <<cacheVars, init_call, poolVars, inflight, streams, waiter, origin, server, file, wr>>

\* the wait after a partial hit runs into its timeout
ReadWaitNextTimeout ==
    /\ th.pc = "wait_next"
    /\ IF wait_timeout_result(th.missing)
       THEN wait_next_success(g_adaptive_timeout_ms)
       ELSE /\ g_adaptive_timeout_ms' = adapt_timeout
            /\ th' = [th EXCEPT !.pc = "fallback", !.escape = th.total_read,
                                    !.waits = @ + 1]
    /\ UNCHANGED <<cacheVars, init_call, poolVars, inflight, streams, waiter, origin, server, file, wr>>

\* lines 302-307: the wait for the first block returns true
ReadWaitFirstWake ==
    /\ th.pc = "wait_first"
    /\ wait_pred(th.missing)
    /\ th' = [th EXCEPT !.pc = "cache_loop", !.waits = @ + 1]
    /\ UNCHANGED <<cacheVars, init_call, poolVars, inflight, streams, waiter, origin, server, file, g_adaptive_timeout_ms, wr>>

\* lines 302-307: the wait for the first block runs into its timeout
ReadWaitFirstTimeout ==
    /\ th.pc = "wait_first"
    /\ th' = [th EXCEPT !.pc = IF wait_timeout_result(th.missing)
                              THEN "cache_loop" ELSE "fallback",
                       !.waits = @ + 1]
    /\ UNCHANGED <<cacheVars, init_call, poolVars, inflight, streams, waiter, origin, server, file, g_adaptive_timeout_ms, wr>>

\* lines 311-320: the synchronous read of the remaining bytes
ReadFallback ==
    /\ th.pc = "fallback"
    /\ LET remaining_len == th.len - th.total_read
           current_pos   == file.offset + th.total_read
       IN  \E sync_res \in PreadResults(current_pos, remaining_len) :
               LET t == [th EXCEPT !.net_reads = @ + 1,
                                   !.want = remaining_len,
                                   !.sync_res = sync_res,
                                   !.buf = @ \o SubSeq(server, current_pos + 1,
                                                       current_pos + sync_res)]
               IN  IF sync_res > 0
                   THEN /\ th' = [t EXCEPT !.pc = "backfill",
                                           !.b = current_pos \div BLOCK_SIZE]
                        /\ file' = file
                   ELSE read_return(t)
    /\ UNCHANGED <<cacheVars, init_call, poolVars, inflight, streams, waiter, origin, server, g_adaptive_timeout_ms, wr>>

\* mutant of whole_block_delivered: a block that begins where the sync read
\* began is not taken
whole_block_delivered_strict(current_pos, sync_end, b) ==
    current_pos < b * BLOCK_SIZE /\ sync_end >= b * BLOCK_SIZE + BLOCK_SIZE

\* line 333: the sync read delivered the whole of block b
whole_block_delivered(current_pos, sync_end, b) ==
    current_pos <= b * BLOCK_SIZE /\ sync_end >= b * BLOCK_SIZE + BLOCK_SIZE

\* lines 328-345: one iteration of the backfill loop; after the last one
\* total_read += sync_res and the call returns.  th.puts is history: the
\* put_block calls this read has made
ReadBackfill(maxAccess) ==
    /\ th.pc = "backfill"
    /\ LET current_pos == file.offset + th.total_read
           sync_end    == current_pos + th.sync_res
           last_block  == (sync_end - 1) \div BLOCK_SIZE
           b_start     == th.b * BLOCK_SIZE
           buf_offset  == b_start - current_pos
           whole       == whole_block_delivered(current_pos, sync_end, th.b)
           data        == [i \in 1..BLOCK_SIZE |-> th.buf[th.total_read + buf_offset + i]]
           t           == IF whole
                          THEN [th EXCEPT !.puts = Append(@, [b |-> th.b, data |-> data])]
                          ELSE th
       IN  /\ IF whole
              THEN /\ Has(th.b) \/ access_counter < maxAccess
                   /\ put_block(th.b, data, BLOCK_SIZE)
              ELSE UNCHANGED cacheVars
           /\ IF th.b < last_block
              THEN th' = [t EXCEPT !.b = @ + 1] /\ file' = file
              ELSE read_return([t EXCEPT !.total_read = @ + th.sync_res])
    /\ UNCHANGED <<init_call, poolVars, inflight, streams, waiter, origin, server, g_adaptive_timeout_ms, wr>>

\* mutant of write_start_block: the block of the first byte is skipped
write_start_block_next(offset) == offset \div BLOCK_SIZE + 1

\* the first block retro_vfs_write invalidates, line 366
write_start_block(offset) == offset \div BLOCK_SIZE

\* mutant of write_end_block: only the block of the first byte is invalidated
write_end_block_first(offset, res) == offset \div BLOCK_SIZE

\* the last block retro_vfs_write invalidates, line 367
write_end_block(offset, res) == (offset + res - 1) \div BLOCK_SIZE

\* retro_vfs_write, lines 356-363: nfs_pwrite under the context mutex
WriteCall ==
    \E n \in 0..MaxWriteLen :
        \E res \in PwriteResults(n) :
            /\ th.pc = "idle"
            /\ wr.k < MaxWrites
            /\ file.offset + n <= MaxFileLen
            /\ LET t == [ThreadIdle EXCEPT !.op = "write", !.len = n,
                                           !.start = file.offset, !.sync_res = res]
                   written == [i \in 1..res |-> WriteByte]
               IN  IF res > 0
                   THEN /\ server' = ServerWrite(file.offset, written)
                        /\ th' = [t EXCEPT !.pc = "invalidate",
                                           !.b = write_start_block(file.offset)]
                        /\ wr' = [k |-> wr.k + 1, n |-> res, o |-> file.offset,
                                  data |-> written,
                                  stale |-> \E b \in BlockIds :
                                                /\ Has(b)
                                                /\ b * BLOCK_SIZE < file.offset + res
                                                /\ file.offset < (b + 1) * BLOCK_SIZE,
                                  quiet |-> TRUE, fresh |-> TRUE]
                   ELSE /\ th' = [t EXCEPT !.pc = "done", !.value = res]
                        /\ UNCHANGED <<server, wr>>
            /\ UNCHANGED <<cacheVars, init_call, poolVars, inflight, streams, waiter, origin, file, g_adaptive_timeout_ms>>

\* retro_vfs_write, lines 364-373: one iteration of the invalidation loop;
\* after the last one the offset advances and the call returns
WriteInvalidate ==
    /\ th.pc = "invalidate"
    /\ LET end_block == write_end_block(file.offset, th.sync_res)
       IN  /\ invalidate_block(th.b)
           /\ IF th.b < end_block
              THEN th' = [th EXCEPT !.b = @ + 1] /\ file' = file
              ELSE /\ th' = [th EXCEPT !.pc = "done", !.value = th.sync_res]
                   /\ file' = [file EXCEPT !.offset = @ + th.sync_res]
    /\ UNCHANGED <<init_call, poolVars, inflight, streams, waiter, origin, server, g_adaptive_timeout_ms, wr>>

\* the largest int64_t (scaled down: the type has 16 values here)
INT64_MAX == 7
\* the values of int64_t
Int64 == (0 - INT64_MAX - 1)..INT64_MAX

\* lines 227-233: target_offset after the switch.  The sums are computed in
\* int64_t; a sum outside the type is signed overflow, undefined behaviour,
\* after which target_offset may hold any value of the type
SeekTargets(offset, seek_position) ==
    LET target == CASE seek_position = 0 -> offset
                    [] seek_position = 1 -> file.offset + offset
                    [] seek_position = 2 -> file.size + offset
                    [] OTHER -> file.offset
    IN  IF target \in Int64 THEN {target} ELSE Int64

\* lines 235-236
SeekClamp(target) ==
    IF target < 0 THEN 0
    ELSE IF target > file.size THEN file.size
    ELSE target

\* retro_vfs_seek
seek(offset, seek_position) ==
    \E target \in SeekTargets(offset, seek_position) :
        file' = [file EXCEPT !.offset = SeekClamp(target)]

Seek ==
    \E offset \in Int64, seek_position \in 0..2 :
        /\ th.pc = "idle"
        /\ seek(offset, seek_position)
        /\ th' = [ThreadIdle EXCEPT !.pc = "done", !.op = "seek",
                                    !.start = file.offset, !.value = file'.offset]
        /\ UNCHANGED <<cacheVars, init_call, poolVars, inflight, streams, waiter, origin, server, g_adaptive_timeout_ms, wr>>

\* the caller has the return value
Return ==
    /\ th.pc = "done"
    /\ th' = ThreadIdle
    /\ UNCHANGED <<cacheVars, init_call, poolVars, inflight, streams, waiter, origin, server, file, g_adaptive_timeout_ms, wr>>

\* the prefetcher fetched block b of the file and hands it to cache_put
Prefetch(maxAccess) ==
    \E b \in BlockIds :
        /\ b * BLOCK_SIZE < Len(server)
        /\ access_counter < maxAccess
        /\ LET n == MinOf(BLOCK_SIZE, Len(server) - b * BLOCK_SIZE)
           IN  put_block(b, SubSeq(server, b * BLOCK_SIZE + 1, b * BLOCK_SIZE + n), n)
        /\ wr' = [wr EXCEPT !.quiet = FALSE]
        /\ UNCHANGED <<init_call, poolVars, inflight, streams, waiter, origin, server, file, g_adaptive_timeout_ms, th>>

\* a file of InitialSize bytes has been opened, the cache initialised
VfsInitState ==
    /\ PoolUnused
    /\ InitialisedCache
    /\ waiter = WaiterIdle
    /\ origin = <<>>
    /\ server = Buffer(1, InitialSize)
    /\ file = [offset |-> 0, size |-> InitialSize]
    /\ g_adaptive_timeout_ms = 4
    /\ th = ThreadIdle
    /\ wr = NoWrite

VfsNext ==
    \/ ReadCall
    \/ ReadCacheLoop(VfsMaxAccess)
    \/ ReadWaitNextWake
    \/ ReadWaitNextTimeout
    \/ ReadWaitFirstWake
    \/ ReadWaitFirstTimeout
    \/ ReadFallback
    \/ ReadBackfill(VfsMaxAccess)
    \/ WriteCall
    \/ WriteInvalidate
    \/ Seek
    \/ Return
    \/ Prefetch(VfsMaxAccess)

VfsSpec == VfsInitState /\ [][VfsNext]_vars

----------------------------------------------------------------------------
(* The adaptive timeout over a long run of reads.  The cache has one slot  *)
(* (cache_init(1)) and nothing is written, so that many reads with a       *)
(* partial hit fit into few states.                                        *)

\* access_counter_ is capped by guards at TimeoutMaxAccess
TimeoutMaxAccess == 14

\* the cache after init(1)
SmallestCache ==
    /\ slots = [i \in 0..(MiB \div BLOCK_SIZE - 1) |-> EmptySlot]
    /\ id_to_slot = <<>>
    /\ access_counter = 0
    /\ init_call = [arg |-> 1, outcome |-> "ok"]

TimeoutInitState ==
    /\ PoolUnused
    /\ SmallestCache
    /\ waiter = WaiterIdle
    /\ origin = <<>>
    /\ server = Buffer(1, InitialSize)
    /\ file = [offset |-> 0, size |-> InitialSize]
    /\ g_adaptive_timeout_ms = 4
    /\ th = ThreadIdle
    /\ wr = NoWrite

TimeoutNext ==
    \/ ReadCall
    \/ ReadCacheLoop(TimeoutMaxAccess)
    \/ ReadWaitNextWake
    \/ ReadWaitNextTimeout
    \/ ReadWaitFirstWake
    \/ ReadWaitFirstTimeout
    \/ ReadFallback
    \/ ReadBackfill(TimeoutMaxAccess)
    \/ Seek
    \/ Return
    \/ Prefetch(TimeoutMaxAccess)

TimeoutSpec == TimeoutInitState /\ [][TimeoutNext]_vars

----------------------------------------------------------------------------
(* ReadSpec: cache_read seen by its caller.  Whole blocks are put, and     *)
(* th holds the arguments and the result of the cache_read that has just   *)
(* returned.  Every cache call is atomic under mutex_, so only the order   *)
(* of the calls matters; the caller looks at its result before the next    *)
(* call is taken.                                                          *)

\* access_counter_ is capped by guards at ReadMaxAccess
ReadMaxAccess == 4

\* cache_put of a whole block
ReadPut ==
    \E b \in BlockIds, v \in Byte :
        /\ th.pc = "idle"
        /\ access_counter < ReadMaxAccess
        /\ put_block(b, Buffer(v, BLOCK_SIZE), BLOCK_SIZE)
        /\ UNCHANGED <<waiter, origin, vfsVars, init_call, poolVars, inflight, streams>>

ReadInvalidate ==
    \E b \in BlockIds :
        /\ th.pc = "idle"
        /\ Has(b)
        /\ invalidate_block(b)
        /\ UNCHANGED <<waiter, origin, vfsVars, init_call, poolVars, inflight, streams>>

\* cache_read(offset, len, out_ptr): the stamps, and what the caller gets
cache_read(offset, len) ==
    LET r == ReadResult(offset, len)
    IN  /\ read(offset, len)
        /\ th' = [ThreadIdle EXCEPT !.pc = "done", !.op = "cache_read",
                                    !.start = offset, !.len = len,
                                    !.value = r.res, !.buf = r.data]

CacheReadCall ==
    \E offset \in Offsets, len \in 0..MaxReadLen :
        /\ th.pc = "idle"
        /\ access_counter + Len(ReadResult(offset, len).stamped) <= ReadMaxAccess
        /\ cache_read(offset, len)
        /\ UNCHANGED <<init_call, poolVars, inflight, streams, waiter, origin, server, file, g_adaptive_timeout_ms, wr>>

\* the caller has the result
CacheReadReturn ==
    /\ th.pc = "done"
    /\ th' = ThreadIdle
    /\ UNCHANGED <<cacheVars, init_call, poolVars, inflight, streams, waiter, origin, server, file, g_adaptive_timeout_ms, wr>>

ReadInitState ==
    /\ NoFileOpen
    /\ InitialisedCache
    /\ waiter = WaiterIdle
    /\ origin = <<>>

ReadNext ==
    \/ ReadPut
    \/ ReadInvalidate
    \/ CacheReadCall
    \/ CacheReadReturn

ReadSpec == ReadInitState /\ [][ReadNext]_vars

----------------------------------------------------------------------------
(* The stat cache of NfsPool.  Time is counted in ticks of the steady      *)
(* clock, TicksPerSecond of them to the second.                            *)

\* ticks per second (scaled down from the clock's nanoseconds)
TicksPerSecond == 2
\* an entry is usable while its age in whole seconds is below StatTtlSeconds
\* (nfs_pool.hpp:106)
StatTtlSeconds == 1
\* put_stat_cache clears the cache when it holds more entries than this
\* (1000 in nfs_pool.hpp:125, scaled)
StatCacheLimit == 2

\* mutant of duration_cast_seconds: rounded to the nearest second
duration_cast_seconds_rounded(d) == (d + TicksPerSecond \div 2) \div TicksPerSecond

\* std::chrono::duration_cast<std::chrono::seconds>(d).count(): truncated
duration_cast_seconds(d) == d \div TicksPerSecond

\* get_stat_cache, lines 103-106: an entry for path exists and is fresh
StatUsable(path) ==
    /\ path \in DOMAIN stat_cache
    /\ duration_cast_seconds(now - stat_cache[path].timestamp) < StatTtlSeconds

\* NfsPool::get_stat_cache: the state change (an expired entry is erased)
get_stat_cache(path) ==
    stat_cache' = IF path \in DOMAIN stat_cache /\ ~StatUsable(path)
                  THEN [x \in (DOMAIN stat_cache) \ {path} |-> stat_cache[x]]
                  ELSE stat_cache

\* mutant of put_stat_cache: the size is never looked at
put_stat_cache_unbounded(path, st) ==
    stat_cache' = [x \in DOMAIN stat_cache \cup {path} |->
                      IF x = path THEN [st |-> st, timestamp |-> now]
                      ELSE stat_cache[x]]

\* NfsPool::put_stat_cache
put_stat_cache(path, st) ==
    LET stored == [x \in DOMAIN stat_cache \cup {path} |->
                      IF x = path THEN [st |-> st, timestamp |-> now]
                      ELSE stat_cache[x]]
    IN  stat_cache' = IF Cardinality(DOMAIN stored) > StatCacheLimit
                      THEN <<>>
                      ELSE stored

----------------------------------------------------------------------------
(* PoolSpec: the connection pool and the per-connection mutex.  Threads    *)
(* open a file, read, write and close it, or stat a path; each of them     *)
(* goes through NfsPool::acquire and makes its transport calls on the      *)
(* context it was handed.  A transport call is two steps, its begin and    *)
(* its end, so that two threads can be seen inside one at the same time.   *)

\* threads 1..MaxThreads call into the VFS
MaxThreads == 2
\* keys (server:export) 1..MaxKeys; one file is opened per key
MaxKeys == 2
\* nfs_init_context is called at most MaxContexts times
MaxContexts == 3

Threads == 1..MaxThreads
Keys == 1..MaxKeys

\* ConnectionHandle {nullptr, nullptr}
NullHandle == [nfs |-> 0, mutex |-> 0]

\* a thread outside every call, holding no file.  Inside a call: op is the
\* VFS function, key its server:export, nfs and ret the context acquire
\* created and the result of its nfs_mount, handle what acquire returned,
\* call the transport function it is about to make or is inside.  file is
\* the handle of the RetroNfsFile the thread has open.  last is history:
\* "open_failed" after a retro_vfs_open that returned NULL because nfs_open
\* failed, until the thread's next call
PtIdle ==
    [pc |-> "idle", op |-> "none", key |-> 0, nfs |-> 0, ret |-> 0,
     handle |-> NullHandle, call |-> "none", file |-> NullHandle,
     last |-> "none"]

\* the VFS function of thread t is over; its file stays as it is
PtReturn(t) == [PtIdle EXCEPT !.file = pt[t].file]

\* what acquire hands out for a pooled connection: its context and the
\* address of its context_mutex (the connection's key stands for it)
HandleOf(key) == [nfs |-> pool[key].nfs, mutex |-> key]

\* mutant of AddRef: the reference is not counted
AddRef_uncounted(key) == pool

\* conn->ref_count++
AddRef(key) == [pool EXCEPT ![key].ref_count = @ + 1]

\* mutant of release: no reference is given back
release_keeps_count(p, nfs) == p

\* NfsPool::release: the connection that owns nfs loses one reference
release(p, nfs) ==
    [k \in DOMAIN p |->
        IF p[k].nfs = nfs THEN [p[k] EXCEPT !.ref_count = @ - 1] ELSE p[k]]

\* mutant of recheck_found: the second look at the pool finds nothing
recheck_found_never(key) == FALSE

\* acquire, line 64: another thread installed the key while this one mounted
recheck_found(key) == key \in DOMAIN pool

\* mutant of mutex_free: the lock is taken whoever holds it
mutex_free_always(key) == TRUE

\* std::lock_guard on a connection's context_mutex can be taken
mutex_free(key) == pool[key].holder = 0

\* mutant of mount_failed: the result of nfs_mount is not looked at
mount_failed_never(ret) == FALSE

\* acquire, line 71: nfs_mount did not return 0
mount_failed(ret) == ret # 0

\* retro_vfs_open up to acquire (lines 92-152)
OpenCall(t, key) ==
    /\ pt[t].pc = "idle"
    /\ pt[t].file = NullHandle
    /\ pt' = [pt EXCEPT ![t] = [PtIdle EXCEPT !.pc = "acquire", !.op = "open", !.key = key]]
    /\ UNCHANGED <<pool, contexts, hist, stat_cache>>

\* acquire, lines 43-50: the first look at the pool, under pool_mutex_
AcquireLookup(t) ==
    /\ pt[t].pc = "acquire"
    /\ IF pt[t].key \in DOMAIN pool
       THEN /\ pool' = AddRef(pt[t].key)
            /\ pt' = [pt EXCEPT ![t].pc = "lock", ![t].handle = HandleOf(pt[t].key),
                                ![t].call = IF pt[t].op = "open" THEN "nfs_open"
                                            ELSE "nfs_stat64"]
       ELSE /\ pt' = [pt EXCEPT ![t].pc = "mount"]
            /\ UNCHANGED pool
    /\ UNCHANGED <<contexts, hist, stat_cache>>

\* acquire, lines 55-58: nfs_init_context and nfs_mount, no lock held.
\* Without a context acquire returns {nullptr, nullptr} and the VFS function
\* gives up
AcquireMount(t) ==
    /\ pt[t].pc = "mount"
    /\ \/ /\ pt' = [pt EXCEPT ![t] = PtReturn(t)]
          /\ UNCHANGED contexts
       \/ /\ contexts < MaxContexts
          /\ contexts' = contexts + 1
          /\ \E ret \in {0, -1} :
                pt' = [pt EXCEPT ![t].pc = "recheck", ![t].nfs = contexts + 1,
                                 ![t].ret = ret]
    /\ UNCHANGED <<pool, hist, stat_cache>>

\* acquire, lines 61-87: the second look at the pool, under pool_mutex_
AcquireRecheck(t) ==
    /\ pt[t].pc = "recheck"
    /\ LET key  == pt[t].key
           next == [pc |-> "lock",
                    call |-> IF pt[t].op = "open" THEN "nfs_open" ELSE "nfs_stat64"]
       IN  IF recheck_found(key)
           THEN /\ hist' = [hist EXCEPT !.destroyed = @ \cup {pt[t].nfs}]
                /\ pool' = AddRef(key)
                /\ pt' = [pt EXCEPT ![t].pc = next.pc, ![t].call = next.call,
                                    ![t].handle = HandleOf(key)]
           ELSE IF mount_failed(pt[t].ret)
           THEN /\ hist' = [hist EXCEPT !.destroyed = @ \cup {pt[t].nfs}]
                /\ pt' = [pt EXCEPT ![t] = PtReturn(t)]
                /\ UNCHANGED pool
           ELSE /\ pool' = [k \in DOMAIN pool \cup {key} |->
                               IF k = key
                               THEN [nfs |-> pt[t].nfs, ref_count |-> 1, holder |-> 0]
                               ELSE pool[k]]
                /\ hist' = [hist EXCEPT !.installed = @ \cup {<<key, pt[t].nfs>>}]
                /\ pt' = [pt EXCEPT ![t].pc = next.pc, ![t].call = next.call,
                                    ![t].handle = [nfs |-> pt[t].nfs, mutex |-> key]]
    /\ UNCHANGED <<contexts, stat_cache>>

\* std::lock_guard lock(*handle.mutex) and the begin of the transport call
Lock(t) ==
    /\ pt[t].pc = "lock"
    /\ mutex_free(pt[t].handle.mutex)
    /\ pool' = [pool EXCEPT ![pt[t].handle.mutex].holder = t]
    /\ pt' = [pt EXCEPT ![t].pc = "in_call"]
    /\ UNCHANGED <<contexts, hist, stat_cache>>

\* the connection's mutex is released
Unlocked(p, key) == [p EXCEPT ![key].holder = 0]

\* retro_vfs_open, lines 164-171: nfs_open returns.  On failure the
\* reference is given back and open returns NULL
OpenExit(t) ==
    /\ pt[t].pc = "in_call" /\ pt[t].call = "nfs_open"
    /\ \/ /\ pool' = Unlocked(release(pool, pt[t].handle.nfs), pt[t].handle.mutex)
          /\ pt' = [pt EXCEPT ![t] = [PtReturn(t) EXCEPT !.last = "open_failed"]]
       \/ /\ pool' = Unlocked(pool, pt[t].handle.mutex)
          /\ pt' = [pt EXCEPT ![t].pc = "lock", ![t].call = "nfs_fstat64"]
    /\ UNCHANGED <<contexts, hist, stat_cache>>

\* retro_vfs_open, lines 173-195: nfs_fstat64 returns, the file is open
FstatExit(t) ==
    /\ pt[t].pc = "in_call" /\ pt[t].call = "nfs_fstat64"
    /\ pool' = Unlocked(pool, pt[t].handle.mutex)
    /\ pt' = [pt EXCEPT ![t] = [PtIdle EXCEPT !.file = pt[t].handle]]
    /\ UNCHANGED <<contexts, hist, stat_cache>>

\* retro_vfs_read reaches its synchronous read (lines 311-315)
PoolRead(t) ==
    /\ pt[t].pc = "idle"
    /\ pt[t].file # NullHandle
    /\ pt' = [pt EXCEPT ![t].pc = "lock", ![t].op = "read",
                        ![t].handle = pt[t].file, ![t].call = "nfs_pread"]
    /\ UNCHANGED <<pool, contexts, hist, stat_cache>>

\* retro_vfs_read, line 318: nfs_pread returns
PreadExit(t) ==
    /\ pt[t].pc = "in_call" /\ pt[t].call = "nfs_pread"
    /\ pool' = Unlocked(pool, pt[t].handle.mutex)
    /\ pt' = [pt EXCEPT ![t] = PtReturn(t)]
    /\ UNCHANGED <<contexts, hist, stat_cache>>

\* retro_vfs_write (lines 356-361)
PoolWrite(t) ==
    /\ pt[t].pc = "idle"
    /\ pt[t].file # NullHandle
    /\ pt' = [pt EXCEPT ![t].pc = "lock", ![t].op = "write",
                        ![t].handle = pt[t].file, ![t].call = "nfs_pwrite"]
    /\ UNCHANGED <<pool, contexts, hist, stat_cache>>

\* retro_vfs_write, line 362: nfs_pwrite returns
PwriteExit(t) ==
    /\ pt[t].pc = "in_call" /\ pt[t].call = "nfs_pwrite"
    /\ pool' = Unlocked(pool, pt[t].handle.mutex)
    /\ pt' = [pt EXCEPT ![t] = PtReturn(t)]
    /\ UNCHANGED <<contexts, hist, stat_cache>>

\* retro_vfs_close (lines 198-203)
PoolClose(t) ==
    /\ pt[t].pc = "idle"
    /\ pt[t].file # NullHandle
    /\ pt' = [pt EXCEPT ![t].pc = "lock", ![t].op = "close",
                        ![t].handle = pt[t].file, ![t].call = "nfs_close"]
    /\ UNCHANGED <<pool, contexts, hist, stat_cache>>

\* retro_vfs_close, lines 204-209: nfs_close returns, the reference is given
\* back and the file deleted
CloseExit(t) ==
    /\ pt[t].pc = "in_call" /\ pt[t].call = "nfs_close"
    /\ pool' = release(Unlocked(pool, pt[t].handle.mutex), pt[t].file.nfs)
    /\ pt' = [pt EXCEPT ![t] = PtIdle]
    /\ UNCHANGED <<contexts, hist, stat_cache>>

\* retro_vfs_stat for the path of key after a miss in the stat cache (lines
\* 382-427); a hit returns at once and changes nothing
StatCall(t, key) ==
    /\ pt[t].pc = "idle"
    /\ ~StatUsable(key)
    /\ get_stat_cache(key)
    /\ pt' = [pt EXCEPT ![t] = [PtReturn(t) EXCEPT !.pc = "acquire", !.op = "stat",
                                                   !.key = key]]
    /\ UNCHANGED <<pool, contexts, hist>>

\* retro_vfs_stat, lines 434-444: nfs_stat64 returns; on success the result
\* goes to the stat cache; the reference is given back
StatExit(t) ==
    /\ pt[t].pc = "in_call" /\ pt[t].call = "nfs_stat64"
    /\ \/ put_stat_cache(pt[t].key, 1)
       \/ UNCHANGED stat_cache
    /\ pool' = release(Unlocked(pool, pt[t].handle.mutex), pt[t].handle.nfs)
    /\ pt' = [pt EXCEPT ![t] = PtReturn(t)]
    /\ UNCHANGED <<contexts, hist>>

\* the frame of every step of the pool: the cache and the single-file part
\* of the state are not used
PoolFrame ==
    UNCHANGED <<cacheVars, waiter, origin, vfsVars, init_call, now, stat_call, inflight, streams>>

PoolInitState ==
    /\ InitialisedCache
    /\ waiter = WaiterIdle
    /\ origin = <<>>
    /\ server = <<>>
    /\ file = [offset |-> 0, size |-> 0]
    /\ g_adaptive_timeout_ms = 4
    /\ th = ThreadIdle
    /\ wr = NoWrite
    /\ pool = <<>>
    /\ contexts = 0
    /\ pt = [t \in Threads |-> PtIdle]
    /\ hist = [installed |-> {}, destroyed |-> {}]
    /\ stat_cache = <<>>
    /\ now = 0
    /\ stat_call = [op |-> "none"]
    /\ inflight = <<>>
    /\ streams = <<>>

PoolNext ==
    \/ \E t \in Threads, key \in Keys : OpenCall(t, key) /\ PoolFrame
    \/ \E t \in Threads : AcquireLookup(t) /\ PoolFrame
    \/ \E t \in Threads : AcquireMount(t) /\ PoolFrame
    \/ \E t \in Threads : AcquireRecheck(t) /\ PoolFrame
    \/ \E t \in Threads : Lock(t) /\ PoolFrame
    \/ \E t \in Threads : OpenExit(t) /\ PoolFrame
    \/ \E t \in Threads : FstatExit(t) /\ PoolFrame
    \/ \E t \in Threads : PoolRead(t) /\ PoolFrame
    \/ \E t \in Threads : PreadExit(t) /\ PoolFrame
    \/ \E t \in Threads : PoolWrite(t) /\ PoolFrame
    \/ \E t \in Threads : PwriteExit(t) /\ PoolFrame
    \/ \E t \in Threads : PoolClose(t) /\ PoolFrame
    \/ \E t \in Threads : CloseExit(t) /\ PoolFrame
    \/ \E t \in Threads, key \in Keys : StatCall(t, key) /\ PoolFrame
    \/ \E t \in Threads : StatExit(t) /\ PoolFrame

PoolSpec == PoolInitState /\ [][PoolNext]_vars

----------------------------------------------------------------------------
(* StatSpec: the stat cache alone.  Entries are put and looked up while    *)
(* the steady clock advances.                                              *)

\* paths 1..MaxPaths
MaxPaths == 3
\* the clock advances to at most MaxNow ticks
MaxNow == 3

Paths == 1..MaxPaths
\* the metadata a put stores
StatValues == {1, 2}

\* put_stat_cache(path, st) is called
StatPut(path, st) ==
    /\ put_stat_cache(path, st)
    /\ stat_call' = [op |-> "put", path |-> path, found |-> FALSE, st |-> st,
                     expired |-> FALSE]
    /\ UNCHANGED now

\* get_stat_cache(path, &st) is called; found is its result, st what it put
\* into *out_st (0: untouched), expired whether it found an expired entry
StatGet(path) ==
    /\ get_stat_cache(path)
    /\ stat_call' = [op |-> "get", path |-> path,
                     found |-> StatUsable(path),
                     st |-> IF StatUsable(path) THEN stat_cache[path].st ELSE 0,
                     expired |-> path \in DOMAIN stat_cache /\ ~StatUsable(path)]
    /\ UNCHANGED now

\* the steady clock advances by one tick
Tick ==
    /\ now < MaxNow
    /\ now' = now + 1
    /\ stat_call' = [op |-> "none"]
    /\ UNCHANGED stat_cache

\* the frame of every step of StatSpec
StatFrame ==
    UNCHANGED <<cacheVars, waiter, origin, vfsVars, init_call, pool, contexts, pt, hist, inflight, streams>>

StatInitState ==
    /\ InitialisedCache
    /\ waiter = WaiterIdle
    /\ origin = <<>>
    /\ server = <<>>
    /\ file = [offset |-> 0, size |-> 0]
    /\ g_adaptive_timeout_ms = 4
    /\ th = ThreadIdle
    /\ wr = NoWrite
    /\ pool = <<>>
    /\ contexts = 0
    /\ pt = <<>>
    /\ hist = [installed |-> {}, destroyed |-> {}]
    /\ stat_cache = <<>>
    /\ now = 0
    /\ stat_call = [op |-> "none"]
    /\ inflight = <<>>
    /\ streams = <<>>

StatNext ==
    \/ \E path \in Paths, st \in StatValues : StatPut(path, st) /\ StatFrame
    \/ \E path \in Paths : StatGet(path) /\ StatFrame
    \/ Tick /\ StatFrame

StatSpec == StatInitState /\ [][StatNext]_vars

----------------------------------------------------------------------------
(* LockSpec: the five kinds of mutex (NfsPool::pool_mutex_, the             *)
(* context_mutex of every connection, BlockCache::mutex_,                  *)
(* NfsPool::stat_cache_mutex_, g_hint_mutex) and the places where a thread *)
(* blocks: transport calls, the prefetch callback, the condition variable  *)
(* of the cache.  Every std::lock_guard / std::unique_lock is two steps,   *)
(* taking the mutex and leaving its scope.  What the cache holds is not    *)
(* followed here: a cache call may end either way.                         *)

PoolMutex == <<"pool", 0>>
CacheMutex == <<"cache", 0>>
StatMutex == <<"stat", 0>>
HintMutex == <<"hint", 0>>
ConnMutex(key) == <<"conn", key>>
NoMutex == <<"none", 0>>

\* a thread outside every call.  held is the stack of the mutexes it holds,
\* in the order it took them; wants is the mutex it is about to take; pc is
\* the scope it is in (or, with wants set, about to enter); file the key of
\* the connection of its open file, 0 without one
LtIdle ==
    [pc |-> "idle", op |-> "none", key |-> 0, held |-> <<>>, wants |-> NoMutex,
     file |-> 0]

Holds(t, m) == \E i \in DOMAIN pt[t].held : pt[t].held[i] = m

\* std::mutex::lock returns only when no thread holds the mutex
lock_free(m) == \A t \in Threads : ~Holds(t, m)

\* mutant of unlock: the scope of a pool_mutex_ guard never ends
unlock_keeps_pool(held, m) ==
    IF m = PoolMutex THEN held ELSE SelectSeq(held, LAMBDA x : x # m)

\* mutant of unlock: the scope of a context_mutex guard never ends
unlock_keeps_conn(held, m) ==
    IF m[1] = "conn" THEN held ELSE SelectSeq(held, LAMBDA x : x # m)

\* mutant of unlock: the scope of a BlockCache::mutex_ guard never ends
unlock_keeps_cache(held, m) ==
    IF m = CacheMutex THEN held ELSE SelectSeq(held, LAMBDA x : x # m)

\* the end of the scope of a std::lock_guard on m
unlock(held, m) == SelectSeq(held, LAMBDA x : x # m)

\* thread t is inside the scope pc names, its mutex taken
At(t, pc) == pt[t].pc = pc /\ pt[t].wants = NoMutex

\* thread t goes on to scope pc, for which it needs mutex m, holding held
Goto(t, pc, m, held) ==
    pt' = [pt EXCEPT ![t].pc = pc, ![t].wants = m, ![t].held = held]

\* the function thread t is in returns; f is its open file from now on,
\* held what it still holds
LtReturn(t, f, held) ==
    pt' = [pt EXCEPT ![t] = [LtIdle EXCEPT !.file = f, !.held = held]]

\* the transport function a thread that acquired a connection calls first
FirstCall(t) == IF pt[t].op = "open" THEN "nfs_open" ELSE "nfs_stat64"

\* std::lock_guard<std::mutex> lock(m): the constructor returns
LkLock(t) ==
    /\ pt[t].wants # NoMutex
    /\ lock_free(pt[t].wants)
    /\ pt' = [pt EXCEPT ![t].held = Append(@, pt[t].wants), ![t].wants = NoMutex]
    /\ UNCHANGED <<pool, contexts, stat_cache>>

\* nfs_vfs_add_path_hint (lines 54-56)
LkHintCall(t) ==
    /\ pt[t].pc = "idle"
    /\ pt' = [pt EXCEPT ![t].pc = "add_hint", ![t].op = "add_hint", ![t].wants = HintMutex]
    /\ UNCHANGED <<pool, contexts, stat_cache>>

\* nfs_vfs_add_path_hint (lines 57-62)
LkHintExit(t) ==
    /\ At(t, "add_hint")
    /\ LtReturn(t, pt[t].file, unlock(pt[t].held, HintMutex))
    /\ UNCHANGED <<pool, contexts, stat_cache>>

\* retro_vfs_open up to the hint lookup (lines 92-120)
LkOpenCall(t, key) ==
    /\ pt[t].pc = "idle"
    /\ pt[t].file = 0
    /\ pt' = [pt EXCEPT ![t].pc = "find_hint", ![t].op = "open", ![t].key = key,
                        ![t].wants = HintMutex]
    /\ UNCHANGED <<pool, contexts, stat_cache>>

\* retro_vfs_open lines 120-152, retro_vfs_stat lines 399-427: the hint
\* lookup ends (without a hint the URL is parsed, with no lock held) and
\* acquire begins
LkFindHint(t) ==
    /\ At(t, "find_hint")
    /\ Goto(t, "lookup", PoolMutex, unlock(pt[t].held, HintMutex))
    /\ UNCHANGED <<pool, contexts, stat_cache>>

\* acquire, lines 43-58: the first look at the pool; on a miss the mutex is
\* given up and nfs_init_context and nfs_mount follow (a null context ends
\* the call)
LkLookup(t) ==
    /\ At(t, "lookup")
    /\ LET held == unlock(pt[t].held, PoolMutex)
       IN  IF pt[t].key \in DOMAIN pool
           THEN /\ pool' = AddRef(pt[t].key)
                /\ Goto(t, FirstCall(t), ConnMutex(pt[t].key), held)
                /\ UNCHANGED contexts
           ELSE /\ UNCHANGED <<pool, contexts>>
                /\ \/ LtReturn(t, pt[t].file, held)
                   \/ Goto(t, "nfs_mount", NoMutex, held)
    /\ UNCHANGED stat_cache

\* acquire, lines 58-62: nfs_mount returns
LkMountExit(t) ==
    /\ At(t, "nfs_mount")
    /\ Goto(t, "recheck", PoolMutex, pt[t].held)
    /\ UNCHANGED <<pool, contexts, stat_cache>>

\* acquire, lines 62-87: the second look at the pool.  ret, the result of
\* the thread's nfs_mount, is drawn here, where it is first looked at; only
\* the contexts that get installed are numbered
LkRecheck(t) ==
    /\ At(t, "recheck")
    /\ LET key  == pt[t].key
           held == unlock(pt[t].held, PoolMutex)
       IN  IF recheck_found(key)
           THEN /\ pool' = AddRef(key)
                /\ Goto(t, FirstCall(t), ConnMutex(key), held)
                /\ UNCHANGED contexts
           ELSE \E ret \in {0, -1} :
                IF mount_failed(ret)
                THEN /\ LtReturn(t, pt[t].file, held)
                     /\ UNCHANGED <<pool, contexts>>
                ELSE /\ pool' = [k \in DOMAIN pool \cup {key} |->
                                    IF k = key
                                    THEN [nfs |-> contexts + 1, ref_count |-> 1]
                                    ELSE pool[k]]
                     /\ contexts' = contexts + 1
                     /\ Goto(t, FirstCall(t), ConnMutex(key), held)
    /\ UNCHANGED stat_cache

\* retro_vfs_open, lines 164-181: nfs_open returns.  After a failure
\* NfsPool::release is called inside the scope of the connection's guard
LkOpenExit(t) ==
    /\ At(t, "nfs_open")
    /\ \/ Goto(t, "release_in_open", PoolMutex, pt[t].held)
       \/ Goto(t, "nfs_fstat64", ConnMutex(pt[t].key),
               unlock(pt[t].held, ConnMutex(pt[t].key)))
    /\ UNCHANGED <<pool, contexts, stat_cache>>

\* retro_vfs_open, lines 168-170: release runs and open returns NULL
LkReleaseInOpen(t) ==
    /\ At(t, "release_in_open")
    /\ pool' = release(pool, pool[pt[t].key].nfs)
    /\ LtReturn(t, 0, unlock(unlock(pt[t].held, PoolMutex), ConnMutex(pt[t].key)))
    /\ UNCHANGED <<contexts, stat_cache>>

\* retro_vfs_open, lines 182-195: nfs_fstat64 returns, the file is open
LkFstatExit(t) ==
    /\ At(t, "nfs_fstat64")
    /\ LtReturn(t, pt[t].key, unlock(pt[t].held, ConnMutex(pt[t].key)))
    /\ UNCHANGED <<pool, contexts, stat_cache>>

\* retro_vfs_close (lines 198-203)
LkCloseCall(t) ==
    /\ pt[t].pc = "idle"
    /\ pt[t].file # 0
    /\ pt' = [pt EXCEPT ![t].pc = "nfs_close", ![t].op = "close",
                        ![t].key = pt[t].file, ![t].wants = ConnMutex(pt[t].file)]
    /\ UNCHANGED <<pool, contexts, stat_cache>>

\* retro_vfs_close, lines 204-206: nfs_close returns and its guard ends
LkCloseExit(t) ==
    /\ At(t, "nfs_close")
    /\ Goto(t, "release", PoolMutex, unlock(pt[t].held, ConnMutex(pt[t].key)))
    /\ UNCHANGED <<pool, contexts, stat_cache>>

\* NfsPool::release called by retro_vfs_close (line 206) and retro_vfs_stat
\* (line 443); close deletes the file
LkRelease(t) ==
    /\ At(t, "release")
    /\ pool' = release(pool, pool[pt[t].key].nfs)
    /\ LtReturn(t, IF pt[t].op = "close" THEN 0 ELSE pt[t].file,
                unlock(pt[t].held, PoolMutex))
    /\ UNCHANGED <<contexts, stat_cache>>

\* retro_vfs_stat up to get_stat_cache (lines 382-387)
LkStatCall(t, key) ==
    /\ pt[t].pc = "idle"
    /\ pt' = [pt EXCEPT ![t].pc = "get_stat", ![t].op = "stat", ![t].key = key,
                        ![t].wants = StatMutex]
    /\ UNCHANGED <<pool, contexts, stat_cache>>

\* retro_vfs_stat, lines 387-399: get_stat_cache returns; a hit ends the call
LkGetStat(t) ==
    /\ At(t, "get_stat")
    /\ get_stat_cache(pt[t].key)
    /\ IF StatUsable(pt[t].key)
       THEN LtReturn(t, pt[t].file, unlock(pt[t].held, StatMutex))
       ELSE Goto(t, "find_hint", HintMutex, unlock(pt[t].held, StatMutex))
    /\ UNCHANGED <<pool, contexts>>

\* retro_vfs_stat, lines 434-442: nfs_stat64 returns; after a success
\* put_stat_cache is called inside the scope of the connection's guard
LkStatExit(t) ==
    /\ At(t, "nfs_stat64")
    /\ \/ Goto(t, "put_stat", StatMutex, pt[t].held)
       \/ Goto(t, "release", PoolMutex, unlock(pt[t].held, ConnMutex(pt[t].key)))
    /\ UNCHANGED <<pool, contexts, stat_cache>>

\* retro_vfs_stat, lines 440-443: put_stat_cache runs, both scopes end
LkPutStat(t) ==
    /\ At(t, "put_stat")
    /\ put_stat_cache(pt[t].key, 1)
    /\ Goto(t, "release", PoolMutex,
            unlock(unlock(pt[t].held, StatMutex), ConnMutex(pt[t].key)))
    /\ UNCHANGED <<pool, contexts>>

\* retro_vfs_read, lines 244-257: with a prefetch callback registered the
\* three hints are given first
LkReadCall(t) ==
    /\ pt[t].pc = "idle"
    /\ pt[t].file # 0
    /\ \/ pt' = [pt EXCEPT ![t].pc = "prefetch_callback", ![t].op = "read",
                           ![t].key = pt[t].file]
       \/ pt' = [pt EXCEPT ![t].pc = "cache_read", ![t].op = "read",
                           ![t].key = pt[t].file, ![t].wants = CacheMutex]
    /\ UNCHANGED <<pool, contexts, stat_cache>>

\* g_prefetch_callback returns: at the head of retro_vfs_read (line 256) the
\* cache loop follows, in the backfill loop (line 340) its next round or
\* the end of the read
LkCallbackExit(t) ==
    /\ \/ /\ At(t, "prefetch_callback")
          /\ Goto(t, "cache_read", CacheMutex, pt[t].held)
       \/ /\ At(t, "backfill_callback")
          /\ \/ LtReturn(t, pt[t].file, pt[t].held)
             \/ Goto(t, "backfill", CacheMutex, pt[t].held)
    /\ UNCHANGED <<pool, contexts, stat_cache>>

\* retro_vfs_read, lines 267-300: BlockCache::read returns; the read is
\* complete, or a block is missing and wait_for_block is called
LkCacheRead(t) ==
    /\ At(t, "cache_read")
    /\ LET held == unlock(pt[t].held, CacheMutex)
       IN  \/ LtReturn(t, pt[t].file, held)
           \/ Goto(t, "wait_for_block", CacheMutex, held)
    /\ UNCHANGED <<pool, contexts, stat_cache>>

\* BlockCache::wait_for_block, lines 103-106: with the block present
\* wait_for returns at once, otherwise the thread waits on cv_, which gives
\* up mutex_
LkWaitEnter(t) ==
    /\ At(t, "wait_for_block")
    /\ LET held == unlock(pt[t].held, CacheMutex)
       IN  \/ Goto(t, "cache_read", CacheMutex, held)
           \/ Goto(t, "cv_wait", NoMutex, held)
    /\ UNCHANGED <<pool, contexts, stat_cache>>

\* cv_ is notified or the timeout expires: wait_for takes mutex_ again
LkWaitWake(t) ==
    /\ At(t, "cv_wait")
    /\ Goto(t, "wait_relock", CacheMutex, pt[t].held)
    /\ UNCHANGED <<pool, contexts, stat_cache>>

\* wait_for looks at the predicate under mutex_: it waits again, or
\* wait_for_block returns true (the cache loop goes on) or false (the
\* synchronous read follows, libretro_vfs_impl.cpp:311-317)
LkWaitExit(t) ==
    /\ At(t, "wait_relock")
    /\ LET held == unlock(pt[t].held, CacheMutex)
       IN  \/ Goto(t, "cv_wait", NoMutex, held)
           \/ Goto(t, "cache_read", CacheMutex, held)
           \/ Goto(t, "nfs_pread", ConnMutex(pt[t].key), held)
    /\ UNCHANGED <<pool, contexts, stat_cache>>

\* retro_vfs_read, lines 318-353: nfs_pread returns and its guard ends;
\* for every block of the delivered range put_block or the prefetch
\* callback or nothing follows
LkPreadExit(t) ==
    /\ At(t, "nfs_pread")
    /\ LET held == unlock(pt[t].held, ConnMutex(pt[t].key))
       IN  \/ LtReturn(t, pt[t].file, held)
           \/ Goto(t, "backfill", CacheMutex, held)
           \/ Goto(t, "backfill_callback", NoMutex, held)
    /\ UNCHANGED <<pool, contexts, stat_cache>>

\* retro_vfs_read, line 336: put_block returns; the loop goes on or the
\* read returns
LkBackfill(t) ==
    /\ At(t, "backfill")
    /\ LET held == unlock(pt[t].held, CacheMutex)
       IN  \/ LtReturn(t, pt[t].file, held)
           \/ Goto(t, "backfill", CacheMutex, held)
    /\ UNCHANGED <<pool, contexts, stat_cache>>

\* retro_vfs_write (lines 356-361)
LkWriteCall(t) ==
    /\ pt[t].pc = "idle"
    /\ pt[t].file # 0
    /\ pt' = [pt EXCEPT ![t].pc = "nfs_pwrite", ![t].op = "write",
                        ![t].key = pt[t].file, ![t].wants = ConnMutex(pt[t].file)]
    /\ UNCHANGED <<pool, contexts, stat_cache>>

\* retro_vfs_write, lines 362-368: nfs_pwrite returns and its guard ends;
\* with res > 0 the blocks are invalidated
LkPwriteExit(t) ==
    /\ At(t, "nfs_pwrite")
    /\ LET held == unlock(pt[t].held, ConnMutex(pt[t].key))
       IN  \/ LtReturn(t, pt[t].file, held)
           \/ Goto(t, "invalidate", CacheMutex, held)
    /\ UNCHANGED <<pool, contexts, stat_cache>>

\* retro_vfs_write, lines 368-373: invalidate_block returns
LkInvalidate(t) ==
    /\ At(t, "invalidate")
    /\ LET held == unlock(pt[t].held, CacheMutex)
       IN  \/ LtReturn(t, pt[t].file, held)
           \/ Goto(t, "invalidate", CacheMutex, held)
    /\ UNCHANGED <<pool, contexts, stat_cache>>

\* the prefetcher calls the cache through the C API: cache_read, cache_put,
\* cache_has_block (block_cache.cpp:168-188)
LkCacheApiCall(t) ==
    /\ pt[t].pc = "idle"
    /\ pt' = [pt EXCEPT ![t].pc = "cache_api", ![t].op = "cache_api",
                        ![t].wants = CacheMutex]
    /\ UNCHANGED <<pool, contexts, stat_cache>>

\* the BlockCache method returns
LkCacheApiExit(t) ==
    /\ At(t, "cache_api")
    /\ LtReturn(t, pt[t].file, unlock(pt[t].held, CacheMutex))
    /\ UNCHANGED <<pool, contexts, stat_cache>>

\* the frame of every step of LockSpec
LockFrame ==
    UNCHANGED <<cacheVars, waiter, origin, vfsVars, init_call, hist, now, stat_call, inflight, streams>>

LockInitState ==
    /\ InitialisedCache
    /\ waiter = WaiterIdle
    /\ origin = <<>>
    /\ server = <<>>
    /\ file = [offset |-> 0, size |-> 0]
    /\ g_adaptive_timeout_ms = 4
    /\ th = ThreadIdle
    /\ wr = NoWrite
    /\ pool = <<>>
    /\ contexts = 0
    /\ pt = [t \in Threads |-> LtIdle]
    /\ hist = [installed |-> {}, destroyed |-> {}]
    /\ stat_cache = <<>>
    /\ now = 0
    /\ stat_call = [op |-> "none"]
    /\ inflight = <<>>
    /\ streams = <<>>

LockNext ==
    \/ \E t \in Threads : LkLock(t) /\ LockFrame
    \/ \E t \in Threads : LkHintCall(t) /\ LockFrame
    \/ \E t \in Threads : LkHintExit(t) /\ LockFrame
    \/ \E t \in Threads, key \in Keys : LkOpenCall(t, key) /\ LockFrame
    \/ \E t \in Threads : LkFindHint(t) /\ LockFrame
    \/ \E t \in Threads : LkLookup(t) /\ LockFrame
    \/ \E t \in Threads : LkMountExit(t) /\ LockFrame
    \/ \E t \in Threads : LkRecheck(t) /\ LockFrame
    \/ \E t \in Threads : LkOpenExit(t) /\ LockFrame
    \/ \E t \in Threads : LkReleaseInOpen(t) /\ LockFrame
    \/ \E t \in Threads : LkFstatExit(t) /\ LockFrame
    \/ \E t \in Threads : LkCloseCall(t) /\ LockFrame
    \/ \E t \in Threads : LkCloseExit(t) /\ LockFrame
    \/ \E t \in Threads : LkRelease(t) /\ LockFrame
    \/ \E t \in Threads, key \in Keys : LkStatCall(t, key) /\ LockFrame
    \/ \E t \in Threads : LkGetStat(t) /\ LockFrame
    \/ \E t \in Threads : LkStatExit(t) /\ LockFrame
    \/ \E t \in Threads : LkPutStat(t) /\ LockFrame
    \/ \E t \in Threads : LkReadCall(t) /\ LockFrame
    \/ \E t \in Threads : LkCallbackExit(t) /\ LockFrame
    \/ \E t \in Threads : LkCacheRead(t) /\ LockFrame
    \/ \E t \in Threads : LkWaitEnter(t) /\ LockFrame
    \/ \E t \in Threads : LkWaitWake(t) /\ LockFrame
    \/ \E t \in Threads : LkWaitExit(t) /\ LockFrame
    \/ \E t \in Threads : LkPreadExit(t) /\ LockFrame
    \/ \E t \in Threads : LkBackfill(t) /\ LockFrame
    \/ \E t \in Threads : LkWriteCall(t) /\ LockFrame
    \/ \E t \in Threads : LkPwriteExit(t) /\ LockFrame
    \/ \E t \in Threads : LkInvalidate(t) /\ LockFrame
    \/ \E t \in Threads : LkCacheApiCall(t) /\ LockFrame
    \/ \E t \in Threads : LkCacheApiExit(t) /\ LockFrame

LockSpec == LockInitState /\ [][LockNext]_vars

----------------------------------------------------------------------------
(* RaceSpec: the emulator thread of VfsSpec and a prefetcher that works in *)
(* two steps.  It reads a block from the server through the bridge         *)
(* (nfs_bridge.c:62-64) and, later, hands what it read to cache_put.       *)
(* Between the two steps the emulator thread may write.                    *)

\* access_counter_ is capped by guards at RaceMaxAccess
RaceMaxAccess == 3

\* the prefetcher reads block b of the file from the server
PrefetchFetch ==
    \E b \in BlockIds :
        /\ inflight = <<>>
        /\ b * BLOCK_SIZE < Len(server)
        /\ LET n == MinOf(BLOCK_SIZE, Len(server) - b * BLOCK_SIZE)
           IN  inflight' = <<[b |-> b, n |-> n,
                              data |-> SubSeq(server, b * BLOCK_SIZE + 1, b * BLOCK_SIZE + n)]>>
        /\ UNCHANGED <<cacheVars, init_call, poolVars, streams, waiter, origin, vfsVars>>

\* the prefetcher calls cache_put with the block it read
PrefetchPut(maxAccess) ==
    /\ inflight # <<>>
    /\ access_counter < maxAccess
    /\ put_block(inflight[1].b, inflight[1].data, inflight[1].n)
    /\ inflight' = <<>>
    /\ wr' = [wr EXCEPT !.quiet = FALSE]
    /\ UNCHANGED <<init_call, poolVars, streams, waiter, origin, server, file, g_adaptive_timeout_ms, th>>

RaceNext ==
    \/ ReadCall
    \/ ReadCacheLoop(RaceMaxAccess)
    \/ ReadWaitNextWake
    \/ ReadWaitNextTimeout
    \/ ReadWaitFirstWake
    \/ ReadWaitFirstTimeout
    \/ ReadFallback
    \/ ReadBackfill(RaceMaxAccess)
    \/ WriteCall
    \/ WriteInvalidate
    \/ Seek
    \/ Return
    \/ PrefetchFetch
    \/ PrefetchPut(RaceMaxAccess)

RaceSpec == VfsInitState /\ [][RaceNext]_vars

----------------------------------------------------------------------------
(* StreamSpec: two files are open at the same time and the emulator thread *)
(* reads from either.  Every retro_vfs_read goes to the one cache,         *)
(* BlockCache::instance(), with block_id = current_pos / BLOCK_SIZE        *)
(* (libretro_vfs_impl.cpp:264-268, 328-336): the stream takes no part in   *)
(* the key.  server and file are those of the stream the current call is   *)
(* on, streams.rest holds the other open streams.                          *)

\* the number of open files
MaxFiles == 2

\* access_counter_ is capped by guards at StreamMaxAccess
StreamMaxAccess == 3

Files == 1..MaxFiles

\* the bytes of file f on the server: no two files agree on any byte
FileBytes(f) == Buffer(f, InitialSize)

\* a stream as retro_vfs_open leaves it: offset 0, size from nfs_fstat64
OpenedStream(f) ==
    [server |-> FileBytes(f), file |-> [offset |-> 0, size |-> InitialSize]]

\* the stream f as the call on it finds it
StreamOf(f) ==
    IF f = streams.cur THEN [server |-> server, file |-> file] ELSE streams.rest[f]

\* retro_vfs_read(stream f, len) up to the first cache read
StreamReadCall ==
    \E f \in Files, len \in 0..MaxReadLen :
        /\ th.pc = "idle"
        /\ LET sel == StreamOf(f)
               t   == [ThreadIdle EXCEPT !.op = "read", !.len = len,
                                         !.start = sel.file.offset, !.first = wr.fresh]
           IN  /\ streams' = [cur |-> f, rest |-> [g \in Files \ {f} |-> StreamOf(g)]]
               /\ server' = sel.server
               /\ file' = sel.file
               /\ th' = IF len = 0
                        THEN [t EXCEPT !.pc = "done", !.value = -1]
                        ELSE [t EXCEPT !.pc = "cache_loop"]
        /\ wr' = [wr EXCEPT !.fresh = FALSE]
        /\ UNCHANGED <<cacheVars, init_call, poolVars, inflight, waiter, origin, g_adaptive_timeout_ms>>

\* both files have been opened, the cache initialised
StreamInitState ==
    /\ pool = <<>>
    /\ contexts = 0
    /\ pt = <<>>
    /\ hist = [installed |-> {}, destroyed |-> {}]
    /\ stat_cache = <<>>
    /\ now = 0
    /\ stat_call = [op |-> "none"]
    /\ inflight = <<>>
    /\ InitialisedCache
    /\ waiter = WaiterIdle
    /\ origin = <<>>
    /\ server = FileBytes(1)
    /\ file = [offset |-> 0, size |-> InitialSize]
    /\ g_adaptive_timeout_ms = 4
    /\ th = ThreadIdle
    /\ wr = NoWrite
    /\ streams = [cur |-> 1, rest |-> [g \in Files \ {1} |-> OpenedStream(g)]]

StreamNext ==
    \/ StreamReadCall
    \/ ReadCacheLoop(StreamMaxAccess)
    \/ ReadWaitNextWake
    \/ ReadWaitNextTimeout
    \/ ReadWaitFirstWake
    \/ ReadWaitFirstTimeout
    \/ ReadFallback
    \/ ReadBackfill(StreamMaxAccess)
    \/ Return
    \/ Prefetch(StreamMaxAccess)

StreamSpec == StreamInitState /\ [][StreamNext]_vars

----------------------------------------------------------------------------
(* TornSpec: BlockCache::read byte by byte.  The reader takes mutex_ on    *)
(* entry (block_cache.cpp:123), looks up and stamps one block after the    *)
(* other and copies its bytes out one at a time; it gives mutex_ up when   *)
(* it returns.  Other threads put and invalidate; put_block and            *)
(* invalidate_block take the same mutex_ first (block_cache.cpp:56, 93).   *)
(* th is the reader, origin the payload every valid block was put with.    *)

\* the reader outside BlockCache::read.  Inside: offset and len are the
\* arguments, b the loop variable, copied the local of that name, slot the
\* index found for b, block_offset and to_copy the locals of the iteration,
\* done the bytes of the memcpy made so far, res the value returned.  parts
\* is history: for every block the read has looked up, its id, the offset
\* the copy started at, the payload the block had been put with, and the
\* bytes copied out for it
ReaderIdle ==
    [pc |-> "idle", offset |-> 0, len |-> 0, b |-> 0, copied |-> 0, slot |-> 0,
     block_offset |-> 0, to_copy |-> 0, done |-> 0, res |-> 0, parts |-> <<>>]

\* the reader's stamps are capped by guards at TornMaxAccess
TornMaxAccess == 4

\* mutant of cache_mutex_free: the mutex is taken whoever holds it
cache_mutex_free_always == TRUE

\* std::lock_guard on BlockCache::mutex_ can be taken: the reader is not
\* inside read (its lock_guard is destroyed by the return)
cache_mutex_free == th.pc = "idle"

\* the frame of the reader's steps
TornFrame ==
    UNCHANGED <<waiter, origin, server, file, g_adaptive_timeout_ms, wr, init_call,
                poolVars, inflight, streams>>

\* read is entered, lines 123-131
TornReadCall ==
    \E offset \in Offsets, len \in 1..MaxReadLen :
        /\ th.pc = "idle"
        /\ th' = IF DOMAIN id_to_slot = {}
                 THEN [ReaderIdle EXCEPT !.pc = "returned", !.offset = offset,
                                         !.len = len, !.res = -1]
                 ELSE [ReaderIdle EXCEPT !.pc = "find", !.offset = offset, !.len = len,
                                         !.b = offset \div BLOCK_SIZE]
        /\ UNCHANGED cacheVars
        /\ TornFrame

\* one iteration of the loop up to its memcpy, lines 133-150, or the end of
\* the loop and the return, lines 157-158
TornFind ==
    /\ th.pc = "find"
    /\ IF th.b > EndBlock(th.offset, th.len)
       THEN /\ th' = [th EXCEPT !.pc = "returned", !.res = th.copied]
            /\ UNCHANGED cacheVars
       ELSE IF ~Has(th.b)
       THEN /\ th' = [th EXCEPT !.pc = "returned",
                                !.res = IF th.copied > 0 THEN th.copied ELSE -1]
            /\ UNCHANGED cacheVars
       ELSE LET block_offset == IF th.b = th.offset \div BLOCK_SIZE
                                THEN th.offset % BLOCK_SIZE ELSE 0
                to_copy      == MinOf(BLOCK_SIZE - block_offset, th.len - th.copied)
            IN  /\ access_counter < TornMaxAccess
                /\ get_block_ptr(th.b)
                /\ th' = [th EXCEPT !.pc = "copy", !.slot = id_to_slot[th.b],
                                    !.block_offset = block_offset,
                                    !.to_copy = to_copy, !.done = 0,
                                    !.parts = Append(@, [b |-> th.b, off |-> block_offset,
                                                         expect |-> origin[th.b].data,
                                                         bytes |-> <<>>])]
    /\ TornFrame

\* one byte of the memcpy of line 153; after the last one copied += to_copy
\* and the loop goes on
TornCopy ==
    /\ th.pc = "copy"
    /\ LET byte == slots[th.slot].data[th.block_offset + th.done + 1]
           t    == [th EXCEPT !.done = @ + 1,
                              !.parts[Len(th.parts)].bytes = Append(@, byte)]
       IN  th' = IF t.done = th.to_copy
                 THEN [t EXCEPT !.pc = "find", !.copied = @ + th.to_copy, !.b = @ + 1]
                 ELSE t
    /\ UNCHANGED cacheVars
    /\ TornFrame

\* read returns and mutex_ is free again; the caller has the result
TornReturn ==
    /\ th.pc = "returned"
    /\ th' = ReaderIdle
    /\ UNCHANGED cacheVars
    /\ TornFrame

\* put_block on another thread
TornPut == cache_mutex_free /\ DataPut

\* invalidate_block on another thread
TornInvalidate == cache_mutex_free /\ DataInvalidate

TornInitState ==
    /\ PoolUnused
    /\ InitialisedCache
    /\ waiter = WaiterIdle
    /\ origin = <<>>
    /\ server = <<>>
    /\ file = [offset |-> 0, size |-> 0]
    /\ g_adaptive_timeout_ms = 4
    /\ wr = NoWrite
    /\ th = ReaderIdle

TornNext ==
    \/ TornReadCall
    \/ TornFind
    \/ TornCopy
    \/ TornReturn
    \/ TornPut
    \/ TornInvalidate

TornSpec == TornInitState /\ [][TornNext]_vars

----------------------------------------------------------------------------
(* Claims about the block cache                                            *)

C4_ExclusiveMapping ==
    /\ \A b \in DOMAIN id_to_slot :
          /\ id_to_slot[b] \in DOMAIN slots
          /\ slots[id_to_slot[b]].valid
          /\ slots[id_to_slot[b]].block_id = b
    /\ \A i \in DOMAIN slots :
          slots[i].valid =>
              /\ slots[i].block_id \in DOMAIN id_to_slot
              /\ id_to_slot[slots[i].block_id] = i
    /\ \A i, j \in DOMAIN slots :
          (slots[i].valid /\ slots[j].valid /\ slots[i].block_id = slots[j].block_id)
              => i = j

\* a valid slot and a stale invalid slot that once held the same id, after
\* an eviction
C4_Witness ==
    \E i, j \in DOMAIN slots :
        /\ slots[i].valid
        /\ ~slots[j].valid
        /\ slots[j].last_access > 0
        /\ slots[i].block_id = slots[j].block_id
        /\ access_counter > NumSlots

AllValid == DOMAIN slots # {} /\ \A i \in DOMAIN slots : slots[i].valid

\* a step in which put_block(b, ...) is called for an id that is not cached
PutOfNew(b) ==
    ~Has(b) /\ put_block(b, Buffer(1, BLOCK_SIZE), BLOCK_SIZE)

\* the cache of seed scenario 3 after put(1); put(2); read of block 1
LruScenarioBefore ==
    /\ NumSlots = 2
    /\ access_counter = 3
    /\ slots[0].valid /\ slots[0].block_id = 1 /\ slots[0].last_access = 3
    /\ slots[1].valid /\ slots[1].block_id = 2 /\ slots[1].last_access = 2

\* C5, LRU correctness: a put of a new id into a full cache reuses the slot
\* with the minimum last_access, only that slot's old id leaves the cache and
\* the new id is present; with an invalid slot available no valid block is
\* evicted; put(1); put(2); read 1; put(3) on 2 slots ends with blocks 1 and 3.
C5_LruCorrectness ==
    [][\A b \in BlockIds :
          PutOfNew(b) =>
              /\ AllValid =>
                    \E v \in DOMAIN slots :
                        /\ \A j \in DOMAIN slots :
                              slots[v].last_access <= slots[j].last_access
                        /\ slots'[v].valid /\ slots'[v].block_id = b
                        /\ \A j \in DOMAIN slots \ {v} : slots'[j] = slots[j]
                        /\ DOMAIN id_to_slot' =
                              ((DOMAIN id_to_slot) \ {slots[v].block_id}) \cup {b}
              /\ (DOMAIN slots # {} /\ ~AllValid) =>
                    DOMAIN id_to_slot' = (DOMAIN id_to_slot) \cup {b}
              /\ (LruScenarioBefore /\ b = 3) =>
                    (1 \in DOMAIN id_to_slot' /\ 2 \notin DOMAIN id_to_slot'
                       /\ 3 \in DOMAIN id_to_slot')
      ]_vars

\* the end of seed scenario 3
C5_Witness ==
    /\ NumSlots = 2
    /\ access_counter = 4
    /\ slots[0].valid /\ slots[0].block_id = 1 /\ slots[0].last_access = 3
    /\ slots[1].valid /\ slots[1].block_id = 3 /\ slots[1].last_access = 4
    /\ Has(1) /\ ~Has(2) /\ Has(3)

\* C6, put idempotence under presence: a put for an id that is already valid
\* changes nothing, so as long as block b stays valid its stored bytes, the
\* bytes behind get_block_ptr and the bytes every read copies out of it are
\* those of the put that made it valid.
C6_PutIdempotent ==
    /\ [][\A b \in BlockIds :
             Has(b) =>
                 \A len \in PutLens :
                     \A data \in PutData(len) :
                         put_block(b, data, len) => UNCHANGED cacheVars]_vars
    /\ [](\A b \in DOMAIN id_to_slot :
             /\ slots[id_to_slot[b]].data = origin[b].data
             /\ BlockPtrData(b) = origin[b].data
             /\ \A k \in 0..(BLOCK_SIZE - 1), len \in 1..MaxReadLen :
                   LET r == ReadResult(b * BLOCK_SIZE + k, len)
                   IN  /\ r.res > 0
                       /\ \A i \in 1..MinOf(len, BLOCK_SIZE - k) :
                             r.data[i] = origin[b].data[k + i])

\* a valid block that a second put offered different bytes
C6_Witness ==
    \E b \in DOMAIN id_to_slot :
        /\ origin[b].again
        /\ origin[b].data = ZeroPadded(Buffer(1, BLOCK_SIZE), BLOCK_SIZE)

\* what a cache read may return while block b is absent: MISS when it starts
\* in b, nothing at or beyond b's first byte when it starts before b
NoBytesFrom(b) ==
    /\ BlockPtrData(b) = NullPtr
    /\ \A offset \in Offsets, len \in 1..MaxReadLen :
          LET r == ReadResult(offset, len)
          IN  /\ (offset \div BLOCK_SIZE = b) => (r.res = -1 /\ r.copied = 0)
              /\ (offset \div BLOCK_SIZE < b) => offset + r.copied <= b * BLOCK_SIZE

\* C7, invalidate completeness: invalidate(b) leaves b absent; an absent
\* block becomes present again only by a put of that id; while it is absent
\* no read returns a byte of it; invalidate of an absent id changes nothing.
C7_InvalidateComplete ==
    /\ [][\A b \in BlockIds :
             /\ invalidate_block(b) =>
                   /\ b \notin DOMAIN id_to_slot'
                   /\ ~Has(b) => UNCHANGED cacheVars
             /\ (~Has(b) /\ b \in DOMAIN id_to_slot') =>
                   \E len \in PutLens : \E data \in PutData(len) :
                       put_block(b, data, len)]_vars
    /\ [](\A b \in BlockIds : ~Has(b) => NoBytesFrom(b))

\* block b was invalidated (its slot still holds its bytes) while block
\* b - 1 is cached, so a read across the boundary stops before b
C7_Witness ==
    \E i \in DOMAIN slots :
        /\ ~slots[i].valid
        /\ slots[i].last_access > 0
        /\ slots[i].block_id > 0
        /\ ~Has(slots[i].block_id)
        /\ Has(slots[i].block_id - 1)
        /\ slots[i].data # [k \in 1..BLOCK_SIZE |-> 0]

\* the number of consecutively present blocks from block b on
PresentRun(b) ==
    CHOOSE n \in 0..(MaxBlock + 1) :
        /\ \A j \in 0..(n - 1) : Has(b + j)
        /\ ~Has(b + n)

\* byte number pos of the cached file, taken from the block that holds it
CachedByte(pos) == slots[id_to_slot[pos \div BLOCK_SIZE]].data[(pos % BLOCK_SIZE) + 1]

ValidSlots == Cardinality({i \in DOMAIN slots : slots[i].valid})

\* C18, init capacity: the first cache_init allocates C = capacity / B slots,
\* a zero or negative capacity argument yields the default capacity, every
\* later init is a no-op, so the slot count never changes after the first
\* initialisation, and the number of valid slots never exceeds C.
C18_InitCapacity ==
    /\ [](init_call.outcome \in {"ok", "bad_alloc"} =>
             NumSlots = ((IF init_call.arg <= 0 THEN DefaultCapacityMb
                          ELSE init_call.arg) * MiB) \div BLOCK_SIZE)
    /\ [][DOMAIN slots # {} => DOMAIN slots' = DOMAIN slots]_vars
    /\ [](ValidSlots <= NumSlots)

\* C19, monotone stamps: every stamp written by a put, a get_block_ptr or a
\* read is strictly greater than every stamp written before it, so no two
\* valid slots have equal last_access, and a hit on a block (a get_block_ptr
\* or a read that starts in it) strictly increases the last_access of its
\* slot.
C19_MonotoneStamps ==
    /\ [](\A i \in DOMAIN slots : slots[i].last_access <= access_counter)
    /\ [](\A i, j \in DOMAIN slots :
             (i # j /\ slots[i].valid /\ slots[j].valid) =>
                 slots[i].last_access # slots[j].last_access)
    /\ [][\A i \in DOMAIN slots :
             (i \in DOMAIN slots' /\ slots'[i].last_access # slots[i].last_access) =>
                 \A j \in DOMAIN slots : slots'[i].last_access > slots[j].last_access]_vars
    /\ [][\A b \in DOMAIN id_to_slot :
             \/ slots'[id_to_slot[b]].last_access > slots[id_to_slot[b]].last_access
             \/ /\ ~get_block_ptr(b)
                /\ \A n \in 1..(MaxBlock + 1) :
                      ~read(b * BLOCK_SIZE, n * BLOCK_SIZE)]_vars

\* two valid slots, the older one stamped by a put and the newer one
\* stamped again after both puts
C19_Witness ==
    \E i, j \in DOMAIN slots :
        /\ slots[i].valid /\ slots[j].valid
        /\ slots[i].last_access = 2
        /\ slots[j].last_access = access_counter
        /\ access_counter > 2

----------------------------------------------------------------------------
(* Claims about retro_vfs_read and retro_vfs_write                         *)

\* a read has returned; th holds what it was asked and what it gave
ReadDone == th.pc = "done" /\ th.op = "read"

\* the read that has returned began inside the range of the last write,
\* asked for a sub-range of it, and nothing but the emulator thread has
\* acted since that write began
ReadOfWritten ==
    /\ ReadDone
    /\ wr.k > 0 /\ wr.quiet
    /\ th.len > 0
    /\ th.start >= wr.o
    /\ th.start + th.len <= wr.o + wr.n

\* the blocks the last write touched
WrittenBlocks == (wr.o \div BLOCK_SIZE)..((wr.o + wr.n - 1) \div BLOCK_SIZE)

\* the bytes of block b on the server, zero-padded to a whole block
ServerBlock(b) ==
    [i \in 1..BLOCK_SIZE |->
        IF b * BLOCK_SIZE + i <= Len(server) THEN server[b * BLOCK_SIZE + i] ELSE 0]

\* C1: read-write coherence.  After a write returned n > 0 for offset o,
\* with nothing else acting, a read of a sub-range of [o, o+n) gives bytes
\* just written and never stale ones: every byte it returns is the written
\* byte of its position, it returns all len of them when nfs_pread delivers
\* what it was asked, and it fails only when nfs_pread does.  The first
\* such read is served by the sync fallback.  Once the write is over, each
\* block it touched is absent from the cache or holds the new bytes.
C1_ReadWriteCoherence ==
    /\ ReadOfWritten =>
          /\ th.value = -1 \/ th.value \in 1..th.len
          /\ th.value > 0 =>
                /\ Len(th.buf) = th.value
                /\ \A i \in 1..th.value : th.buf[i] = wr.data[th.start - wr.o + i]
          /\ th.value = -1 => th.net_reads = 1 /\ th.sync_res <= 0
          /\ (th.net_reads = 0 \/ th.sync_res = th.want) => th.value = th.len
          /\ th.first => th.net_reads = 1
    /\ (wr.k > 0 /\ wr.quiet /\ th.pc \in {"idle", "done"}) =>
          \A b \in WrittenBlocks :
              Has(b) => slots[id_to_slot[b]].data = ServerBlock(b)

\* C1 witness: a block the write touched was cached with the old bytes, and
\* the first read after the write returned all the bytes just written
C1_Witness ==
    /\ ReadOfWritten
    /\ wr.stale
    /\ th.first
    /\ th.value = th.len
    /\ th.net_reads = 1
    /\ th.buf = [i \in 1..th.len |-> WriteByte]

\* C2: partial-hit escape.  When the wait for the next missing block timed
\* out after the cache loop copied total > 0 bytes, read returns exactly
\* those total bytes, advances the offset by total and issues no network
\* read for the tail.
C2_PartialHitEscape ==
    (ReadDone /\ th.escape > 0) =>
        /\ th.value = th.escape
        /\ file.offset = th.start + th.escape
        /\ th.net_reads = 0

\* C8: adaptive timeout bounds.  After any sequence of read calls the
\* process-wide adaptive timeout lies in [2, 20].
C8_TimeoutBounds ==
    /\ 2 <= g_adaptive_timeout_ms
    /\ g_adaptive_timeout_ms <= 20

\* C9: a read of length 0 returns 0 and does not touch the cache: no
\* last_access changes, no block is inserted or removed, and the file
\* offset is unchanged.
C9_ZeroLengthRead ==
    [][(th.pc = "idle" /\ th'.pc = "done" /\ th'.op = "read" /\ th'.len = 0) =>
          /\ th'.value = 0
          /\ UNCHANGED cacheVars
          /\ file'.offset = file.offset]_vars

\* C10: a read issued when the file offset equals the file size returns 0,
\* not an error value, and leaves the offset equal to size, whether or not
\* the final block is in the cache.
C10_ReadAtEof ==
    (ReadDone /\ th.len > 0 /\ th.start = file.size) =>
        /\ th.value = 0
        /\ file.offset = file.size

\* a write has returned; th holds what it was asked and what it gave
WriteDone == th.pc = "done" /\ th.op = "write"

\* C14, write invalidation and ordering.  A write for which nfs_pwrite
\* reports n > 0 bytes at offset o invalidates the blocks o/B .. (o+n-1)/B
\* one after the other, each being absent right after its turn, and only
\* with the last of them advances the offset by n and returns n; until
\* then the offset is o.  With nothing else acting all of them are absent
\* when it returns.  A write for which nfs_pwrite returns <= 0 changes
\* neither the cache nor the offset.
C14_WriteInvalidation ==
    /\ [][(th.pc = "idle" /\ th'.op = "write") =>
             /\ file' = file
             /\ UNCHANGED cacheVars
             /\ IF th'.sync_res > 0
                THEN th'.pc = "invalidate" /\ th'.b = th'.start \div BLOCK_SIZE
                ELSE th'.pc = "done" /\ th'.value = th'.sync_res]_vars
    /\ [][(th.pc = "invalidate" /\ th' # th) =>
             /\ ~(th.b \in DOMAIN id_to_slot')
             /\ IF th.b < (th.start + th.sync_res - 1) \div BLOCK_SIZE
                THEN th'.pc = "invalidate" /\ th'.b = th.b + 1 /\ file' = file
                ELSE /\ th.b = (th.start + th.sync_res - 1) \div BLOCK_SIZE
                     /\ th'.pc = "done" /\ th'.value = th.sync_res
                     /\ file'.offset = file.offset + th.sync_res]_vars
    /\ [](th.pc = "invalidate" =>
             /\ th.sync_res > 0
             /\ file.offset = th.start
             /\ th.b >= th.start \div BLOCK_SIZE
             /\ wr.quiet => \A b \in (th.start \div BLOCK_SIZE)..(th.b - 1) : ~Has(b))
    /\ []((WriteDone /\ th.value > 0) =>
             /\ file.offset = th.start + th.value
             /\ wr.quiet => \A b \in WrittenBlocks : ~Has(b))

\* a write of two bytes across a block boundary has returned 2; a block it
\* touched was in the cache when it began, and both are absent now
C14_Witness ==
    /\ WriteDone
    /\ th.value = 2
    /\ th.start % BLOCK_SIZE = BLOCK_SIZE - 1
    /\ wr.stale /\ wr.quiet
    /\ \A b \in WrittenBlocks : ~Has(b)
    /\ file.offset = th.start + 2

\* C15, read result and offset: a read that delivers total > 0 bytes (cache
\* bytes plus sync-read bytes) returns total and advances the offset by
\* exactly total; when nothing was delivered and nfs_pread failed with the
\* negative value e, read returns e and leaves the offset unchanged.
C15_ReadResultAndOffset ==
    ReadDone =>
        /\ th.total_read > 0 =>
              /\ th.value = th.total_read
              /\ file.offset = th.start + th.total_read
        /\ (th.total_read = 0 /\ th.net_reads > 0 /\ th.sync_res < 0) =>
              /\ th.value = th.sync_res
              /\ file.offset = th.start

\* the target of a seek in unbounded arithmetic
SeekArithmeticTarget(offset, seek_position) ==
    CASE seek_position = 0 -> offset
      [] seek_position = 1 -> file.offset + offset
      [] seek_position = 2 -> file.size + offset

\* C16, seek clamps: for every whence in {start, current, end} and every
\* signed offset, seek sets the handle's offset to the arithmetic target
\* clamped into [0, size], returns the new offset, and touches neither the
\* cache nor the network.
C16_SeekClamps ==
    [][\A offset \in Int64, seek_position \in 0..2 :
          (th.pc = "idle" /\ th'.op = "seek" /\ seek(offset, seek_position)) =>
              LET target == SeekArithmeticTarget(offset, seek_position)
              IN  /\ file'.offset = IF target < 0 THEN 0
                                    ELSE IF target > file.size THEN file.size
                                    ELSE target
                  /\ th'.value = file'.offset
                  /\ th'.net_reads = 0
                  /\ UNCHANGED <<cacheVars, server>>]_vars

\* C20, the adaptive update rule applies to every block wait made by read,
\* the wait for the first missing block included: a wait that timed out
\* makes T_ms min(T_ms + 2, 20); one that succeeded leaves it unchanged or,
\* when it took less than T_ms/2 ms, makes it max(T_ms - 1, 2).
C20_AdaptiveRuleEveryWait ==
    [][(th.pc \in {"wait_next", "wait_first"} /\ th' # th) =>
          IF th'.pc = "fallback"
          THEN g_adaptive_timeout_ms' = MinOf(g_adaptive_timeout_ms + 2, 20)
          ELSE g_adaptive_timeout_ms' \in
                   {g_adaptive_timeout_ms,
                    IF g_adaptive_timeout_ms - 1 < 2 THEN 2
                    ELSE g_adaptive_timeout_ms - 1}]_vars

----------------------------------------------------------------------------
(* Claims about the connection pool                                        *)

\* thread t is inside a transport call
InTransportCall(t) == pt[t].pc = "in_call"

\* thread t holds a handle that acquire returned for its key and has not
\* given up yet
HoldsAcquired(t) ==
    /\ pt[t].op \in {"open", "stat"}
    /\ pt[t].pc \in {"lock", "in_call"}

\* C12, connection uniqueness and stability: for every key at most one
\* connection is ever installed in the pool, also when several threads
\* acquire the same absent key at once and each mounts its own context; the
\* loser destroys its context and is handed the installed one; every handle
\* acquire returned for a key, and the handle of every open file, is the
\* context and mutex of the connection the pool holds for that key now; a
\* step never replaces or removes a connection, whatever its ref_count; an
\* installed context is never destroyed.
C12_ConnectionUniqueness ==
    /\ [](\A key \in Keys :
            Cardinality({c \in hist.installed : c[1] = key}) <= 1)
    /\ [](\A t \in Threads :
            /\ HoldsAcquired(t) =>
                 /\ pt[t].key \in DOMAIN pool
                 /\ pt[t].handle = HandleOf(pt[t].key)
            /\ pt[t].file # NullHandle =>
                 /\ pt[t].file.mutex \in DOMAIN pool
                 /\ pt[t].file = HandleOf(pt[t].file.mutex))
    /\ [](\A c \in hist.installed : c[2] \notin hist.destroyed)
    /\ [][\A key \in DOMAIN pool :
            /\ key \in DOMAIN pool'
            /\ pool'[key].nfs = pool[key].nfs]_vars
    /\ [][\A t \in Threads :
            (/\ pt[t].pc = "recheck"
             /\ pt'[t].pc # "recheck"
             /\ pt[t].key \in DOMAIN pool)
            => /\ pt[t].nfs \in hist'.destroyed
               /\ pt'[t].handle = [nfs |-> pool[pt[t].key].nfs, mutex |-> pt[t].key]
               /\ pool'[pt[t].key].ref_count = pool[pt[t].key].ref_count + 1]_vars

\* C12 witness: two threads acquired the same absent key at once and each
\* mounted a context of its own with success; one was installed, the other
\* destroyed, and both hold the same handle
C12_Witness ==
    \E t1 \in Threads, t2 \in Threads :
        /\ t1 # t2
        /\ HoldsAcquired(t1) /\ HoldsAcquired(t2)
        /\ pt[t1].key = pt[t2].key
        /\ pt[t1].nfs # 0 /\ pt[t2].nfs # 0
        /\ pt[t1].ret = 0 /\ pt[t2].ret = 0
        /\ <<pt[t1].key, pt[t1].nfs>> \in hist.installed
        /\ pt[t2].nfs \in hist.destroyed
        /\ pt[t1].handle = pt[t2].handle

\* C13, per-context serialization: at any moment at most one thread is
\* inside a transport call (nfs_open, nfs_fstat64, nfs_pread, nfs_pwrite,
\* nfs_stat64, nfs_close) on a given context, and a thread inside one holds
\* the context_mutex of the connection that owns the context.
C13_PerContextSerialization ==
    /\ \A t1 \in Threads, t2 \in Threads :
          (t1 # t2 /\ InTransportCall(t1) /\ InTransportCall(t2))
          => pt[t1].handle.nfs # pt[t2].handle.nfs
    /\ \A t \in Threads :
          InTransportCall(t) =>
             /\ pt[t].handle.mutex \in DOMAIN pool
             /\ pool[pt[t].handle.mutex].holder = t
             /\ pool[pt[t].handle.mutex].nfs = pt[t].handle.nfs

\* C13 witness: two threads have a file open on the same context; one is
\* inside a transport call on it and the other waits for the mutex
C13_Witness ==
    \E t1 \in Threads, t2 \in Threads :
        /\ t1 # t2
        /\ pt[t1].file # NullHandle
        /\ pt[t1].file = pt[t2].file
        /\ InTransportCall(t1)
        /\ pt[t2].pc = "lock"
        /\ pt[t1].handle = pt[t2].handle

----------------------------------------------------------------------------
(* Claims about the stat cache                                             *)

\* C17, stat-cache TTL: get(path) returns true, with the stored metadata,
\* iff an entry for path exists and now - insertion timestamp is below one
\* second; an entry of age one second or more is not returned and is erased
\* by the get that finds it.
C17_StatCacheTtl ==
    [][\A path \in Paths :
          (stat_call'.op = "get" /\ stat_call'.path = path)
          => LET present == path \in DOMAIN stat_cache
                 age     == now - stat_cache[path].timestamp
             IN  /\ stat_call'.found <=> (present /\ age < TicksPerSecond)
                 /\ stat_call'.found => stat_call'.st = stat_cache[path].st
                 /\ (present /\ age >= TicksPerSecond)
                       => path \notin DOMAIN stat_cache']_vars

\* C17 witness: a get found an entry of age one second or more, returned
\* false and erased it
C17_Witness ==
    /\ stat_call.op = "get"
    /\ stat_call.expired
    /\ ~stat_call.found
    /\ stat_call.path \notin DOMAIN stat_cache

\* C26, stat-cache size bound: the stat cache never holds more than the
\* limit (1000 in the source) of entries; a put whose insertion makes the map
\* grow beyond the limit leaves the map empty, and any other put leaves the
\* entry it stored, stamped with the time of the put.
C26_StatCacheBound ==
    /\ [](Cardinality(DOMAIN stat_cache) <= StatCacheLimit)
    /\ [][\A path \in Paths :
            (stat_call'.op = "put" /\ stat_call'.path = path)
            => IF Cardinality(DOMAIN stat_cache \cup {path}) > StatCacheLimit
               THEN stat_cache' = <<>>
               ELSE /\ DOMAIN stat_cache' = DOMAIN stat_cache \cup {path}
                    /\ stat_cache'[path] = [st |-> stat_call'.st, timestamp |-> now]]_vars

\* C26 witness: a put has just emptied a map that held the limit of entries
C26_Witness ==
    /\ stat_call.op = "put"
    /\ stat_cache = <<>>

\* thread t leaves the second, locked look of acquire at the pool
RecheckStep(t) == pt[t].pc = "recheck" /\ pt'[t].pc # "recheck"

\* C27, failed mount: an acquire whose nfs_mount failed and whose key is
\* still absent at the re-check returns the null handle and leaves the pool
\* (mapping and ref_counts) as it was; when another thread installed the key
\* meanwhile, the acquire returns that connection's context and mutex and
\* increments its ref_count, although its own mount failed.
C27_FailedMount ==
    [][\A t \in Threads :
          (RecheckStep(t) /\ pt[t].ret # 0)
          => LET key == pt[t].key
             IN  IF key \notin DOMAIN pool
                 THEN /\ pool' = pool
                      /\ pt'[t].pc = "idle"
                      /\ pt'[t].handle = NullHandle
                 ELSE /\ pt'[t].handle = [nfs |-> pool[key].nfs, mutex |-> key]
                      /\ pool' = [pool EXCEPT ![key].ref_count = @ + 1]]_vars

\* C27 witness: a thread whose own mount failed holds the connection that
\* another thread installed while it mounted
C27_Witness ==
    \E t \in Threads :
        /\ HoldsAcquired(t)
        /\ pt[t].nfs # 0
        /\ pt[t].ret # 0
        /\ pt[t].handle = HandleOf(pt[t].key)
        /\ pt[t].nfs \in hist.destroyed

\* the references thread t holds on the connection of key: one for its open
\* file, one for a handle it acquired and has not yet released or turned
\* into a file
RefsHeld(t, key) ==
    (IF pt[t].file # NullHandle /\ pt[t].file.mutex = key THEN 1 ELSE 0)
    + (IF HoldsAcquired(t) /\ pt[t].key = key THEN 1 ELSE 0)

RECURSIVE SumRefs(_, _)
SumRefs(S, key) ==
    IF S = {} THEN 0
    ELSE LET t == CHOOSE x \in S : TRUE
         IN  RefsHeld(t, key) + SumRefs(S \ {t}, key)

\* nfs_open of thread t fails and retro_vfs_open returns NULL
FailedOpenStep(t) ==
    /\ pt[t].pc = "in_call"
    /\ pt[t].call = "nfs_open"
    /\ pt'[t].pc = "idle"

\* C28, failed open: when acquire succeeded and nfs_open fails, open returns
\* NULL (no file), the reference acquire took is given back, so that every
\* ref_count is the number of references threads hold, the connection
\* stays in the pool with its context, and the thread holds no connection
\* mutex on return.
C28_FailedOpen ==
    /\ [](\A key \in DOMAIN pool : pool[key].ref_count = SumRefs(Threads, key))
    /\ [][\A t \in Threads :
            FailedOpenStep(t)
            => LET key == pt[t].handle.mutex
               IN  /\ pt'[t].file = NullHandle
                   /\ key \in DOMAIN pool'
                   /\ pool'[key].nfs = pool[key].nfs
                   /\ pool'[key].ref_count = pool[key].ref_count - 1
                   /\ \A k \in DOMAIN pool' : pool'[k].holder # t]_vars

\* C28 witness: a retro_vfs_open has just returned NULL after its nfs_open
\* failed; the connection it had acquired is in the pool, unreferenced
C28_Witness ==
    \E t \in Threads, key \in Keys :
        /\ pt[t].last = "open_failed"
        /\ pt[t].pc = "idle"
        /\ key \in DOMAIN pool
        /\ pool[key].ref_count = 0
        /\ pool[key].holder = 0

\* the blocks whose whole span lies inside the n bytes delivered from p on
WholeBlocks(p, n) ==
    {b \in BlockIds : p <= b * BLOCK_SIZE /\ (b + 1) * BLOCK_SIZE <= p + n}

\* C25, backfill: when a read has returned whose synchronous fallback read
\* delivered n > 0 bytes from position p on, the read has called put_block
\* once for every block b with p <= b*B and (b+1)*B <= p+n, with the B bytes
\* delivered for the span of b (the bytes the server holds there), and for
\* no other block; a read without such a fallback has called no put_block.
C25_Backfill ==
    ReadDone =>
        LET n == th.sync_res
            p == th.start + th.total_read - n
        IN  IF n > 0
            THEN /\ {th.puts[i].b : i \in DOMAIN th.puts} = WholeBlocks(p, n)
                 /\ Len(th.puts) = Cardinality(WholeBlocks(p, n))
                 /\ \A i \in DOMAIN th.puts :
                       LET b == th.puts[i].b
                       IN  /\ th.puts[i].data =
                                 [j \in 1..BLOCK_SIZE |-> th.buf[b * BLOCK_SIZE - th.start + j]]
                           /\ th.puts[i].data =
                                 SubSeq(server, b * BLOCK_SIZE + 1, (b + 1) * BLOCK_SIZE)
            ELSE th.puts = <<>>

\* C25 witness: the fallback read began inside a block and delivered the
\* rest of it and the whole of the next block: one put, for the next block
C25_Witness ==
    /\ ReadDone
    /\ th.sync_res > 0
    /\ (th.start + th.total_read - th.sync_res) % BLOCK_SIZE # 0
    /\ Len(th.puts) = 1

----------------------------------------------------------------------------
(* Claims about the mutexes                                                *)

\* the transport functions; a thread is inside one when it is in that scope
TransportCalls ==
    {"nfs_open", "nfs_fstat64", "nfs_pread", "nfs_pwrite", "nfs_stat64", "nfs_close",
     "nfs_mount"}

\* thread t is inside a transport call, inside the prefetch callback
InTransport(t) == pt[t].pc \in TransportCalls /\ pt[t].wants = NoMutex
InCallback(t) == pt[t].pc \in {"prefetch_callback", "backfill_callback"}

\* thread t holds a connection mutex and took the pool mutex after it (or
\* has asked for it)
ConnThenPool(t) ==
    \/ \E i, j \in DOMAIN pt[t].held :
          i < j /\ pt[t].held[i][1] = "conn" /\ pt[t].held[j] = PoolMutex
    \/ /\ pt[t].wants = PoolMutex
       /\ \E i \in DOMAIN pt[t].held : pt[t].held[i][1] = "conn"

\* C21, lock order: no thread takes the pool mutex while it holds a
\* connection mutex.
C21_LockOrder == \A t \in Threads : ~ConnThenPool(t)

\* the threads of S wait for one another: each wants a mutex that a thread
\* of S holds
WaitCycle(S) ==
    /\ S # {}
    /\ \A t \in S : pt[t].wants # NoMutex /\ \E u \in S : Holds(u, pt[t].wants)

\* C22, deadlock freedom: in no reachable state is there a set of threads
\* each of which waits for a mutex (pool, connection, cache, stat cache,
\* hint) held by another thread of the set; and no thread holds the cache
\* mutex and a connection mutex at the same time.
C22_DeadlockFreedom ==
    /\ \A S \in SUBSET Threads : ~WaitCycle(S)
    /\ \A t \in Threads, key \in Keys :
          ~(Holds(t, CacheMutex) /\ Holds(t, ConnMutex(key)))

\* C22 witness: one thread holds a connection mutex and waits for the pool
\* mutex, which another thread holds
C22_Witness ==
    \E t \in Threads, u \in Threads, key \in Keys :
        /\ t # u
        /\ Holds(t, ConnMutex(key))
        /\ pt[t].wants = PoolMutex
        /\ Holds(u, PoolMutex)

\* C23: the pool mutex is not held while a mount is in progress: a thread
\* inside nfs_mount holds no mutex at all, so it keeps no other thread from
\* its acquire or release.
C23_MountOutsidePoolMutex ==
    \A t \in Threads : (pt[t].pc = "nfs_mount") => pt[t].held = <<>>

\* C23 witness: while one thread is inside the mount of a key, another holds
\* the pool mutex in the release of a different, installed key
C23_Witness ==
    \E t \in Threads, u \in Threads :
        /\ t # u
        /\ pt[t].pc = "nfs_mount"
        /\ pt[t].key \notin DOMAIN pool
        /\ At(u, "release")
        /\ pt[u].key \in DOMAIN pool
        /\ pt[u].key # pt[t].key

\* C24: a thread that is inside a transport call (nfs_pread, nfs_pwrite,
\* nfs_open, nfs_fstat64, nfs_stat64, nfs_close, nfs_mount) or inside the
\* prefetch callback does not hold the cache mutex.
C24_CacheMutexNotAcrossCalls ==
    \A t \in Threads : (InTransport(t) \/ InCallback(t)) => ~Holds(t, CacheMutex)

\* C24 witness: one thread is inside nfs_pread after its wait for a block
\* timed out, while another thread holds the cache mutex
C24_Witness ==
    \E t \in Threads, u \in Threads :
        /\ t # u
        /\ At(t, "nfs_pread")
        /\ Holds(u, CacheMutex)

----------------------------------------------------------------------------
(* Claims about reads and writes with a concurrent prefetcher              *)

\* C29, coherence under concurrency: once a write has returned, no later
\* read returns a pre-write byte for a position the write covered, whatever
\* the prefetcher did in between: every byte a read delivers for a position
\* in [o, o+n) of the last write is the byte written there.
C29_CoherenceUnderConcurrency ==
    (ReadDone /\ wr.k > 0 /\ th.value > 0) =>
        \A i \in 1..th.value :
            LET q == th.start + i - 1
            IN  (wr.o <= q /\ q < wr.o + wr.n) => th.buf[i] = wr.data[q - wr.o + 1]

----------------------------------------------------------------------------
(* Claims about several open files                                         *)

\* C30, cross-file isolation: with two files open, a read on file F returns
\* only bytes of F: every byte a finished read delivers is the byte of the
\* file it was called on at that position, whatever was backfilled or put
\* while another file was read.
C30_CrossFileIsolation ==
    (ReadDone /\ th.value > 0) =>
        \A i \in 1..th.value : th.buf[i] = server[th.start + i]

----------------------------------------------------------------------------
(* Claims about the offset of an open file                                 *)

\* C31, offset within file: after any sequence of seek, read and write calls
\* 0 <= offset <= size holds for the open file, and a read that has returned
\* n > 0 bytes from offset p returned no more than size - p bytes.
C31_OffsetWithinFile ==
    /\ 0 <= file.offset
    /\ file.offset <= file.size
    /\ (ReadDone /\ th.value > 0) => th.value <= file.size - th.start

----------------------------------------------------------------------------
(* Claims about the termination of a read                                  *)

\* the number of blocks the bytes [start, start + len) lie in
BlocksSpanned(start, len) ==
    IF len = 0 THEN 0 ELSE (start + len - 1) \div BLOCK_SIZE - start \div BLOCK_SIZE + 1

\* C32, read termination: whatever other threads put and evict, the cache
\* loop of one read call waits a bounded number of times, at most once for
\* each block the request spans, and the call makes at most one synchronous
\* network read.
C32_ReadTermination ==
    th.op = "read" =>
        /\ th.waits <= BlocksSpanned(th.start, th.len)
        /\ th.net_reads <= 1

----------------------------------------------------------------------------
(* Claims about the presence check                                         *)

\* a step of cache_has_block(b) as CacheSpec takes it
HasBlockStep(b) ==
    /\ access_counter < MaxAccess
    /\ cache_has_block(b)

\* C33, the presence check is pure: cache_has_block(b) returns 1 iff b is
\* valid, and the call leaves slots (every last_access included), the map
\* and the access counter as they were.
C33_PresenceCheckPure ==
    [][\A b \in BlockIds :
          HasBlockStep(b) =>
              /\ HasBlockResult(b) = 1 <=> (Has(b) /\ slots[id_to_slot[b]].valid)
              /\ UNCHANGED cacheVars]_vars

----------------------------------------------------------------------------
(* Claims about the reference counts of the pool                           *)

\* retro_vfs_stat of thread t returns after its nfs_stat64
StatReturnStep(t) ==
    /\ pt[t].op = "stat"
    /\ pt[t].pc = "in_call"
    /\ pt'[t].pc = "idle"

\* C34, reference-count accounting: in every reachable state the ref_count
\* of every pooled connection is the number of handles acquired for it and
\* not yet released (open files plus acquires in flight in open and stat),
\* and is not negative; when a stat call returns, the reference it took is
\* gone again: the count is what the open files and the calls still in
\* flight hold, and no other connection's count has changed.
C34_RefCountAccounting ==
    /\ [](\A key \in DOMAIN pool :
            /\ pool[key].ref_count = SumRefs(Threads, key)
            /\ pool[key].ref_count >= 0)
    /\ [][\A t \in Threads :
            StatReturnStep(t)
            => \A key \in DOMAIN pool :
                  IF key = pt[t].handle.mutex
                  THEN /\ pool'[key].ref_count = pool[key].ref_count - 1
                       /\ pool'[key].ref_count = SumRefs(Threads, key)'
                  ELSE pool'[key].ref_count = pool[key].ref_count]_vars

\* C34 witness: a connection is referenced twice, by the open file of one
\* thread and by the stat call of another that holds its handle
C34_Witness ==
    \E t1 \in Threads, t2 \in Threads, key \in Keys :
        /\ t1 # t2
        /\ key \in DOMAIN pool
        /\ pool[key].ref_count = 2
        /\ pt[t1].file # NullHandle /\ pt[t1].file.mutex = key
        /\ pt[t2].op = "stat" /\ HoldsAcquired(t2) /\ pt[t2].key = key

----------------------------------------------------------------------------
(* Claims about the stat cache as a store                                  *)

\* C35, stat-cache round trip: whatever the stat cache held before, a
\* put(path, meta) followed by a get(path) less than one second later, with
\* no other stat-cache operation in between, returns true and meta.
C35_StatRoundTrip ==
    [][\A path \in Paths :
          (/\ stat_call.op = "put" /\ stat_call.path = path
           /\ stat_call'.op = "get" /\ stat_call'.path = path
           /\ now' = now)
          => /\ stat_call'.found
             /\ stat_call'.st = stat_call.st]_vars

----------------------------------------------------------------------------
(* Claims about the bytes of one read                                      *)

\* C36, no torn block reads: whatever other threads put, evict and
\* invalidate, the bytes a cache read copies out for a block are, byte for
\* byte, the zero-padded payload the block was put with by the one put that
\* made it valid, from the block offset on; never bytes of another put.
C36_NoTornReads ==
    \A i \in 1..Len(th.parts) :
        LET p == th.parts[i]
        IN  \A j \in 1..Len(p.bytes) : p.bytes[j] = p.expect[p.off + j]

\* C36 witness: a read has returned bytes of two blocks that were put with
\* different payloads, and other threads had put three times
C36_Witness ==
    /\ th.pc = "returned"
    /\ Len(th.parts) = 2
    /\ th.res = 3
    /\ th.parts[1].expect # th.parts[2].expect
    /\ Len(th.parts[1].bytes) + Len(th.parts[2].bytes) = 3

====
